---- MODULE Spec2Model ----
(***************************************************************************)
(* A model of dbload (src/py/dbload/dbload.py): format detection, type     *)
(* inference, value conversion and the batched, transactional load of the  *)
(* detected rows into the SQLite store through one shared connection.      *)
(*                                                                         *)
(* Python strings are sequences of one-character strings, so that          *)
(* stripping, splitting and parsing are computed character by character.   *)
(***************************************************************************)
EXTENDS Integers, Sequences, FiniteSets, TLC

(***************************************************************************)
(* Strings                                                                 *)
(***************************************************************************)

\* The characters str.strip() removes, among the characters of the model.
Whitespace == {" ", "\t", "\n"}

Digits == {"0", "1", "2", "3", "4", "5", "6", "7", "8", "9"}

DigitVal(c) ==
  CASE c = "0" -> 0 [] c = "1" -> 1 [] c = "2" -> 2 [] c = "3" -> 3
    [] c = "4" -> 4 [] c = "5" -> 5 [] c = "6" -> 6 [] c = "7" -> 7
    [] c = "8" -> 8 [] c = "9" -> 9

RECURSIVE lstrip(_)
lstrip(s) == IF s # <<>> /\ Head(s) \in Whitespace THEN lstrip(Tail(s)) ELSE s

RECURSIVE rstrip(_)
rstrip(s) ==
  IF s # <<>> /\ s[Len(s)] \in Whitespace
    THEN rstrip(SubSeq(s, 1, Len(s) - 1))
    ELSE s

\* str.strip()
strip(s) == rstrip(lstrip(s))

\* All sequences over alphabet A of length at most n.
SeqsUpTo(A, n) == UNION {[1..k -> A] : k \in 0..n}

\* The first index of character c in s, or 0.
IndexOf(s, c) ==
  IF \E i \in 1..Len(s) : s[i] = c
    THEN CHOOSE i \in 1..Len(s) : s[i] = c /\ \A j \in 1..(i - 1) : s[j] # c
    ELSE 0

AllDigits(s) == s # <<>> /\ \A i \in 1..Len(s) : s[i] \in Digits

DigitVals(s) == [i \in 1..Len(s) |-> DigitVal(s[i])]

RECURSIVE StripZeros(_)
StripZeros(d) == IF d # <<>> /\ Head(d) = 0 THEN StripZeros(Tail(d)) ELSE d

Zeros(n) == [i \in 1..n |-> 0]

\* The value of a short digit sequence as a number.
RECURSIVE NatOf(_)
NatOf(d) == IF d = <<>> THEN 0 ELSE 10 * NatOf(SubSeq(d, 1, Len(d) - 1)) + d[Len(d)]

\* d1 >= d2 for two digit sequences of the same length.
RECURSIVE DigitsGeq(_, _)
DigitsGeq(d1, d2) ==
  IF d1 = <<>> THEN TRUE
  ELSE IF Head(d1) # Head(d2) THEN Head(d1) > Head(d2)
  ELSE DigitsGeq(Tail(d1), Tail(d2))

(***************************************************************************)
(* float(s) and int(s) of Python, on the characters of the model           *)
(***************************************************************************)

\* An optional sign in front of the rest.
SignSplit(s) ==
  IF s # <<>> /\ Head(s) \in {"+", "-"}
    THEN [neg |-> Head(s) = "-", rest |-> Tail(s)]
    ELSE [neg |-> FALSE, rest |-> s]

\* The largest finite double is 1.7976931348623157e308; a decimal at or above
\* 1.797693134862315808e308 rounds to infinity.
DBL_OVERFLOW_DIGITS == <<1, 7, 9, 7, 6, 9, 3, 1, 3, 4, 8, 6, 2, 3, 1, 5, 8, 0, 8>>
DBL_MAX_10_EXP == 308

\* Whether digits d (no leading zero) times 10^e10 is beyond the finite doubles.
Overflows(d, e10) ==
  LET order == Len(d) + e10 - 1
      n == Len(DBL_OVERFLOW_DIGITS)
      lead == [i \in 1..n |-> IF i <= Len(d) THEN d[i] ELSE 0]
  IN  d # <<>> /\
      (order > DBL_MAX_10_EXP \/ (order = DBL_MAX_10_EXP /\ DigitsGeq(lead, DBL_OVERFLOW_DIGITS)))

\* The mantissa "digits[.digits]" or ".digits" of a float literal:
\* ok, its digits without the point, and the number of digits after the point.
Mantissa(m) ==
  LET parts(ip, fp) ==
        IF /\ ip = <<>> \/ AllDigits(ip)
           /\ fp = <<>> \/ AllDigits(fp)
           /\ ip # <<>> \/ fp # <<>>
          THEN [ok |-> TRUE, digs |-> DigitVals(ip \o fp), nfrac |-> Len(fp)]
          ELSE [ok |-> FALSE, digs |-> <<>>, nfrac |-> 0]
      point(p) ==
        parts(IF p = 0 THEN m ELSE SubSeq(m, 1, p - 1),
              IF p = 0 THEN <<>> ELSE SubSeq(m, p + 1, Len(m)))
  IN  point(IndexOf(m, "."))

\* The exponent "[sign]digits" of a float literal.
Exponent(x) ==
  LET signed(neg, rest) ==
        IF AllDigits(rest)
          THEN [ok |-> TRUE, val |-> (IF neg THEN 0 - 1 ELSE 1) * NatOf(DigitVals(rest))]
          ELSE [ok |-> FALSE, val |-> 0]
      sign(sg) == signed(sg.neg, sg.rest)
  IN  sign(SignSplit(x))

FloatError == [k |-> "err", neg |-> FALSE, digs |-> <<>>, e10 |-> 0]

\* float(s): k is "err" (ValueError), "nan", "inf" or "fin"; a finite value is
\* (-1)^neg * digs * 10^e10 with digs free of leading zeros.
float(s) ==
  LET value(neg, r, ok, d, e10) ==
        IF r \in {<<"i", "n", "f">>, <<"i", "n", "f", "i", "n", "i", "t", "y">>}
          THEN [k |-> "inf", neg |-> neg, digs |-> <<>>, e10 |-> 0]
        ELSE IF r = <<"n", "a", "n">>
          THEN [k |-> "nan", neg |-> neg, digs |-> <<>>, e10 |-> 0]
        ELSE IF ~ok THEN FloatError
        ELSE IF Overflows(d, e10)
          THEN [k |-> "inf", neg |-> neg, digs |-> <<>>, e10 |-> 0]
        ELSE [k |-> "fin", neg |-> neg, digs |-> d, e10 |-> IF d = <<>> THEN 0 ELSE e10]
      parts(neg, r, man, ex) ==
        value(neg, r, man.ok /\ ex.ok, StripZeros(man.digs), ex.val - man.nfrac)
      literal(neg, r, ep) ==
        parts(neg, r,
              Mantissa(IF ep = 0 THEN r ELSE SubSeq(r, 1, ep - 1)),
              IF ep = 0 THEN [ok |-> TRUE, val |-> 0]
                        ELSE Exponent(SubSeq(r, ep + 1, Len(r))))
      signed(neg, r) == literal(neg, r, IndexOf(r, "e"))
      sign(sg) == signed(sg.neg, sg.rest)
  IN  sign(SignSplit(strip(s)))

\* int(s) on a string: [sign]digits after stripping; ok is FALSE for ValueError.
int(s) ==
  LET value(ok, neg, d) == [ok |-> ok, neg |-> neg /\ d # <<>>, digs |-> d]
      digits(ok, neg, rest) ==
        value(ok, neg, IF ok THEN StripZeros(DigitVals(rest)) ELSE <<>>)
      signed(neg, rest) == digits(AllDigits(rest), neg, rest)
      sign(sg) == signed(sg.neg, sg.rest)
  IN  sign(SignSplit(strip(s)))

\* The digits of m * d + c, for digits d, a multiplier m of at most 5 and a
\* carry c of one digit.
RECURSIVE MulAdd(_, _, _)
MulAdd(d, m, c) ==
  IF d = <<>> THEN (IF c = 0 THEN <<>> ELSE <<c>>)
  ELSE MulAdd(SubSeq(d, 1, Len(d) - 1), m, (m * d[Len(d)] + c) \div 10)
         \o <<(m * d[Len(d)] + c) % 10>>

\* The whole number d as a double holds it: below 2^53 itself, from there on
\* the nearest number of 53 significant bits, a tie going to the even one.
\* round is the bit shifted out last, sticky whether anything below it was
\* not zero; d \div 2 is the digits of 5 * d without the last.
RECURSIVE nearest_double(_, _, _)
nearest_double(d, round, sticky) ==
  LET two_to_53 == <<9, 0, 0, 7, 1, 9, 9, 2, 5, 4, 7, 4, 0, 9, 9, 2>>
      halved(h) == nearest_double(SubSeq(h, 1, Len(h) - 1), d[Len(d)] % 2 = 1, sticky \/ round)
  IN  IF Len(d) > 16 \/ (Len(d) = 16 /\ DigitsGeq(d, two_to_53))
        THEN MulAdd(halved(MulAdd(d, 5, 0)), 2, 0)
      ELSE IF round /\ (sticky \/ d[Len(d)] % 2 = 1) THEN MulAdd(d, 1, 1)
      ELSE d

\* int(x) on a float: truncation toward zero; exc names the exception raised
\* for an infinity (OverflowError) or a not-a-number (ValueError).  float()
\* above keeps the decimal it read; the rounding of a double to 53 bits is
\* applied here, to the whole part, the fraction counting as sticky.  (Below
\* 2^53 the fraction is dropped as it is, which is what the double gives for
\* every decimal of fewer than 17 significant digits.)
int_of_float(x) ==
  LET truncated(d) ==
        CASE x.k = "inf" -> [exc |-> "OverflowError", neg |-> FALSE, digs |-> <<>>]
          [] x.k = "nan" -> [exc |-> "ValueError", neg |-> FALSE, digs |-> <<>>]
          [] x.k = "fin" -> [exc |-> "none", neg |-> x.neg /\ d # <<>>, digs |-> d]
  IN  truncated(nearest_double(
                  IF x.e10 >= 0 THEN x.digs \o Zeros(x.e10)
                  ELSE IF 0 - x.e10 >= Len(x.digs) THEN <<>>
                  ELSE SubSeq(x.digs, 1, Len(x.digs) + x.e10),
                  FALSE,
                  \E i \in 1..Len(x.digs) : i > Len(x.digs) + x.e10 /\ x.digs[i] # 0))

(***************************************************************************)
(* DatabaseManager._convert_value                                          *)
(***************************************************************************)

Types == {"TEXT", "INTEGER", "REAL"}

Null == [t |-> "null"]
IntegerValue(neg, digs) == [t |-> "int", neg |-> neg, digs |-> digs]
RealValue(x) == [t |-> "real", k |-> x.k, neg |-> x.neg, digs |-> x.digs, e10 |-> x.e10]
TextValue(s) == [t |-> "text", s |-> s]

Returned(v) == [raises |-> "none", val |-> v]
Raised(exc) == [raises |-> exc, val |-> Null]

\* The exceptions the handler of _convert_value catches.
ConvertCaught == {"ValueError", "TypeError"}

\* A conversion whose handler returns the value as it was passed in.
_convert_value_verbatim(value, target_type) ==
  LET outcome(v, x, n, exc) ==
        IF exc \in ConvertCaught THEN Returned(TextValue(value))
        ELSE IF exc # "none" THEN Raised(exc)
        ELSE IF target_type = "INTEGER" THEN Returned(IntegerValue(n.neg, n.digs))
        ELSE IF target_type = "REAL" THEN Returned(RealValue(x))
        ELSE Returned(TextValue(v))
      as_int(v, x, n) ==
        outcome(v, x, n,
                IF target_type \in {"INTEGER", "REAL"} /\ x.k = "err" THEN "ValueError"
                ELSE IF target_type = "INTEGER" THEN n.exc
                ELSE "none")
      as_float(v, x) == as_int(v, x, int_of_float(x))
      stripped(v) ==
        IF value = <<>> \/ v = <<>> THEN Returned(Null) ELSE as_float(v, float(v))
  IN  stripped(strip(value))

_convert_value(value, target_type) ==
  LET outcome(v, x, n, exc) ==
        IF exc \in ConvertCaught THEN Returned(TextValue(v))
        ELSE IF exc # "none" THEN Raised(exc)
        ELSE IF target_type = "INTEGER" THEN Returned(IntegerValue(n.neg, n.digs))
        ELSE IF target_type = "REAL" THEN Returned(RealValue(x))
        ELSE Returned(TextValue(v))
      as_int(v, x, n) ==
        outcome(v, x, n,
                IF target_type \in {"INTEGER", "REAL"} /\ x.k = "err" THEN "ValueError"
                ELSE IF target_type = "INTEGER" THEN n.exc
                ELSE "none")
      as_float(v, x) == as_int(v, x, int_of_float(x))
      stripped(v) ==
        IF value = <<>> \/ v = <<>> THEN Returned(Null) ELSE as_float(v, float(v))
  IN  stripped(strip(value))

(***************************************************************************)
(* Files.  A file is its extension, its stem and its lines (each line the  *)
(* characters before its newline).  sniff is what csv.Sniffer.has_header,  *)
(* a library heuristic outside the program, answers for the file's first   *)
(* lines: "yes", "no" or "error" (it raised).                              *)
(***************************************************************************)

\* str.split(c): the pieces of s between the occurrences of c.
RECURSIVE split(_, _)
split(s, c) ==
  LET at(p) ==
        IF p = 0 THEN <<s>>
        ELSE <<SubSeq(s, 1, p - 1)>> \o split(SubSeq(s, p + 1, Len(s)), c)
  IN  at(IndexOf(s, c))

RECURSIVE SumSeq(_)
SumSeq(q) == IF q = <<>> THEN 0 ELSE Head(q) + SumSeq(Tail(q))

MaxSeq(q) == CHOOSE x \in {q[i] : i \in 1..Len(q)} : \A j \in 1..Len(q) : q[j] <= x
MinSeq(q) == CHOOSE x \in {q[i] : i \in 1..Len(q)} : \A j \in 1..Len(q) : q[j] >= x

Min(a, b) == IF a <= b THEN a ELSE b

\* The decimal digits of a natural number, as characters.
DigitChar(d) == CHOOSE c \in Digits : DigitVal(c) = d
RECURSIVE str_of_nat(_)
str_of_nat(n) ==
  IF n < 10 THEN <<DigitChar(n)>> ELSE Append(str_of_nat(n \div 10), DigitChar(n % 10))

\* Names counted from zero: column_0, column_1, ...
column_names_from_zero(n) ==
  [i \in 1..n |-> <<"c", "o", "l", "u", "m", "n", "_">> \o str_of_nat(i - 1)]

\* [f'column_{i+1}' for i in range(n)]
column_names(n) ==
  [i \in 1..n |-> <<"c", "o", "l", "u", "m", "n", "_">> \o str_of_nat(i)]

\* FileFormatDetector._looks_like_number
_looks_like_number(value) == float(strip(value)).k # "err"

(***************************************************************************)
(* FileFormatDetector.detect_csv_delimiter                                 *)
(***************************************************************************)

delimiters == <<",", ";", "|", "\t">>
sample_size == 5

\* The field counts of the non-empty stripped sample lines split on d.
field_counts(lines, d) ==
  LET counts(nonempty) == [i \in 1..Len(nonempty) |-> Len(split(nonempty[i], d))]
      sample(sample_lines) == counts(SelectSeq(sample_lines, LAMBDA l : l # <<>>))
  IN  sample([i \in 1..Min(sample_size, Len(lines)) |-> strip(lines[i])])

\* consistency * avg_fields, times the number n of counted lines (the same n
\* for every delimiter): with avg = S/n >= 2, (1 - (max-min)/avg) * avg * n
\* = S - n*(max-min); 0 when the average is below 2 or nothing was counted.
delimiter_score(lines, d) ==
  LET score(fc, n, S) ==
        IF n > 0 /\ S >= 2 * n THEN S - n * (MaxSeq(fc) - MinSeq(fc)) ELSE 0
      counted(fc) == score(fc, Len(fc), SumSeq(fc))
  IN  counted(field_counts(lines, d))

\* A detection that answers the last of the highest score.
detect_csv_delimiter_last(lines) ==
  LET chosen(sc, best) == IF sc[best] > 0 THEN delimiters[best] ELSE ","
      scored(sc) ==
        chosen(sc, CHOOSE i \in 1..Len(delimiters) :
                     /\ \A j \in 1..Len(delimiters) : sc[j] <= sc[i]
                     /\ \A j \in (i + 1)..Len(delimiters) : sc[j] < sc[i])
  IN  scored([i \in 1..Len(delimiters) |-> delimiter_score(lines, delimiters[i])])

\* A detection that always answers the comma.
detect_csv_delimiter_comma(lines) == ","

\* max(delimiter_scores.items(), key=score): the first of the highest score;
\* the comma when that score is not positive.
detect_csv_delimiter(lines) ==
  LET chosen(sc, best) == IF sc[best] > 0 THEN delimiters[best] ELSE ","
      scored(sc) ==
        chosen(sc, CHOOSE i \in 1..Len(delimiters) :
                     /\ \A j \in 1..Len(delimiters) : sc[j] <= sc[i]
                     /\ \A j \in 1..(i - 1) : sc[j] < sc[i])
  IN  scored([i \in 1..Len(delimiters) |-> delimiter_score(lines, delimiters[i])])

(***************************************************************************)
(* csv.reader with the default dialect and the given delimiter             *)
(***************************************************************************)

EOL == "EOL"

\* The characters the reader is fed: every line, its newline, the end of line.
RECURSIVE csv_stream(_)
csv_stream(lines) ==
  IF lines = <<>> THEN <<>>
  ELSE Head(lines) \o <<"\n", EOL>> \o csv_stream(Tail(lines))

csv_start == [state |-> "START_RECORD", field |-> <<>>, fields |-> <<>>, rows |-> <<>>]

csv_save(st, state) ==
  [st EXCEPT !.fields = Append(st.fields, st.field), !.field = <<>>, !.state = state]

csv_add(st, c, state) == [st EXCEPT !.field = Append(st.field, c), !.state = state]

csv_after_newline(c) == IF c = EOL THEN "START_RECORD" ELSE "EAT_CRNL"

csv_start_field(st, c, delim) ==
  IF c \in {"\n", EOL} THEN csv_save(st, csv_after_newline(c))
  ELSE IF c = "\"" THEN [st EXCEPT !.state = "IN_QUOTED_FIELD"]
  ELSE IF c = delim THEN csv_save(st, "START_FIELD")
  ELSE csv_add(st, c, "IN_FIELD")

csv_process_char(st, c, delim) ==
  CASE st.state = "START_RECORD" ->
         IF c = EOL THEN st
         ELSE IF c = "\n" THEN [st EXCEPT !.state = "EAT_CRNL"]
         ELSE csv_start_field(st, c, delim)
    [] st.state = "START_FIELD" -> csv_start_field(st, c, delim)
    [] st.state = "IN_FIELD" ->
         IF c \in {"\n", EOL} THEN csv_save(st, csv_after_newline(c))
         ELSE IF c = delim THEN csv_save(st, "START_FIELD")
         ELSE csv_add(st, c, "IN_FIELD")
    [] st.state = "IN_QUOTED_FIELD" ->
         IF c = EOL THEN st
         ELSE IF c = "\"" THEN [st EXCEPT !.state = "QUOTE_IN_QUOTED_FIELD"]
         ELSE csv_add(st, c, "IN_QUOTED_FIELD")
    [] st.state = "QUOTE_IN_QUOTED_FIELD" ->
         IF c = "\"" THEN csv_add(st, c, "IN_QUOTED_FIELD")
         ELSE IF c = delim THEN csv_save(st, "START_FIELD")
         ELSE IF c \in {"\n", EOL} THEN csv_save(st, csv_after_newline(c))
         ELSE csv_add(st, c, "IN_FIELD")
    [] st.state = "EAT_CRNL" ->
         IF c = EOL THEN [st EXCEPT !.state = "START_RECORD"]
         ELSE IF c = "\n" THEN st
         ELSE [st EXCEPT !.state = "ERROR"]

\* A record ends when the end of a line leaves the reader at START_RECORD.
csv_end_of_record(st, c) ==
  IF c = EOL /\ st.state = "START_RECORD"
    THEN [st EXCEPT !.rows = Append(st.rows, st.fields), !.fields = <<>>]
    ELSE st

RECURSIVE csv_run(_, _, _)
csv_run(st, stream, delim) ==
  IF stream = <<>> \/ st.state = "ERROR" THEN st
  ELSE csv_run(csv_end_of_record(csv_process_char(st, Head(stream), delim), Head(stream)),
               Tail(stream), delim)

\* list(csv.reader(f, delimiter=delim)): at the end of the file inside a
\* quoted field the pending field and record are returned.
csv_reader(lines, delim) ==
  LET read(st) ==
        IF st.state = "IN_QUOTED_FIELD" THEN Append(st.rows, Append(st.fields, st.field))
        ELSE st.rows
  IN  read(csv_run(csv_start, csv_stream(lines), delim))

(***************************************************************************)
(* The loaders.  A loader returns a tuple of n values (headers, rows,      *)
(* has_headers and, when n = 4, all_rows) or raises.                       *)
(***************************************************************************)

Loaded(n, headers, rows, has_headers, all_rows) ==
  [raises |-> FALSE, n |-> n, headers |-> headers, rows |-> rows,
   has_headers |-> has_headers, all_rows |-> all_rows]

LoadRaised == [raises |-> TRUE, n |-> 0, headers |-> <<>>, rows |-> <<>>,
               has_headers |-> FALSE, all_rows |-> <<>>]

\* FileFormatDetector.load_csv
load_csv(file) ==
  LET read(lines, has_headers, all_rows) ==
        IF lines = <<>> THEN Loaded(3, <<>>, <<>>, FALSE, <<>>)
        ELSE IF all_rows = <<>> THEN Loaded(4, <<>>, <<>>, FALSE, <<>>)
        ELSE IF has_headers THEN Loaded(4, all_rows[1], Tail(all_rows), TRUE, all_rows)
        ELSE Loaded(4, column_names(Len(all_rows[1])), all_rows, FALSE, all_rows)
      \* The fallback of the header detection, on the first line split.
      first_row_has_text(first_row) ==
        \E i \in 1..Len(first_row) : ~_looks_like_number(strip(first_row[i]))
      delimited(lines, delimiter) ==
        read(lines,
             IF file.sniff = "error"
               THEN first_row_has_text(split(strip(lines[1]), delimiter))
               ELSE file.sniff = "yes",
             csv_reader(lines, delimiter))
      opened(lines) == delimited(lines, detect_csv_delimiter(lines))
  IN  opened(file.lines)

(***************************************************************************)
(* FileFormatDetector.load_text                                            *)
(***************************************************************************)

Quotes == {"\"", "'"}

\* The first index at or after p of a character of set C in s, or Len(s)+1.
RECURSIVE FindFrom(_, _, _)
FindFrom(s, p, C) ==
  IF p > Len(s) \/ s[p] \in C THEN p ELSE FindFrom(s, p + 1, C)

\* Where the match of (?:[^\s"']+|"[^"]*"|'[^']*')+ that has reached p ends:
\* one more run of plain characters or one more closed quoted run, repeated.
RECURSIVE field_match_end(_, _)
field_match_end(line, p) ==
  IF p > Len(line) \/ line[p] \in Whitespace THEN p
  ELSE IF line[p] \in Quotes
    THEN LET closing(q) == IF q > Len(line) THEN p ELSE field_match_end(line, q + 1)
         IN  closing(FindFrom(line, p + 1, {line[p]}))
  ELSE field_match_end(line, FindFrom(line, p, Whitespace \cup Quotes))

\* re.findall of that pattern on line, from position p.
RECURSIVE findall_fields(_, _)
findall_fields(line, p) ==
  IF p > Len(line) THEN <<>>
  ELSE LET match(e) ==
             IF e > p THEN <<SubSeq(line, p, e - 1)>> \o findall_fields(line, e)
             ELSE findall_fields(line, p + 1)
       IN  match(field_match_end(line, p))

\* field.strip('\'"')
RECURSIVE strip_quotes(_)
strip_quotes(s) ==
  IF s # <<>> /\ Head(s) \in Quotes THEN strip_quotes(Tail(s))
  ELSE IF s # <<>> /\ s[Len(s)] \in Quotes THEN strip_quotes(SubSeq(s, 1, Len(s) - 1))
  ELSE s

text_fields(line) ==
  LET stripped(f) == [i \in 1..Len(f) |-> strip_quotes(f[i])]
  IN  stripped(findall_fields(line, 1))

load_text(file) ==
  LET read(lines, all_rows, first_row, has_headers) ==
        IF lines = <<>> THEN Loaded(3, <<>>, <<>>, FALSE, <<>>)
        ELSE IF all_rows = <<>> THEN Loaded(4, <<>>, <<>>, FALSE, <<>>)
        ELSE IF has_headers THEN Loaded(4, first_row, Tail(all_rows), TRUE, all_rows)
        ELSE Loaded(4, column_names(Len(first_row)), all_rows, FALSE, all_rows)
      headed(lines, all_rows, first_row) ==
        read(lines, all_rows, first_row,
             \E i \in 1..Len(first_row) : ~_looks_like_number(first_row[i]))
      rows(lines, all_rows) == headed(lines, all_rows, all_rows[1])
      fields(lines, split_rows) == rows(lines, SelectSeq(split_rows, LAMBDA r : r # <<>>))
      nonempty(lines) == fields(lines, [i \in 1..Len(lines) |-> text_fields(lines[i])])
      stripped(all_lines) == nonempty(SelectSeq(all_lines, LAMBDA l : l # <<>>))
  IN  stripped([i \in 1..Len(file.lines) |-> strip(file.lines[i])])

(***************************************************************************)
(* json.loads, on the characters of the model: objects, arrays, strings    *)
(* without escapes and numbers.  The literals true, false, null, NaN and   *)
(* Infinity cannot be spelled with these characters.                       *)
(***************************************************************************)

JsonWhitespace == {" ", "\t", "\n"}

RECURSIVE skip_ws(_, _)
skip_ws(s, p) == IF p <= Len(s) /\ s[p] \in JsonWhitespace THEN skip_ws(s, p + 1) ELSE p

JNum(neg, digs, isfloat, lit) ==
  [t |-> "num", neg |-> neg, digs |-> digs, isfloat |-> isfloat, lit |-> lit]
JStr(x) == [t |-> "str", s |-> x]
JArr(items) == [t |-> "arr", items |-> items]
JObj(keys, vals) == [t |-> "obj", keys |-> keys, vals |-> vals]

JFail == [ok |-> FALSE, val |-> JStr(<<>>), next |-> 0]
JOk(v, next) == [ok |-> TRUE, val |-> v, next |-> next]

\* The end of the run of digits that starts at p.
RECURSIVE digits_end(_, _)
digits_end(s, p) == IF p <= Len(s) /\ s[p] \in Digits THEN digits_end(s, p + 1) ELSE p

\* (-?(?:0|[1-9]\d*))(\.\d+)?([eE][-+]?\d+)? at p
parse_number(s, p) ==
  LET number(neg, i0, i1, e1, d) ==
        IF i1 = i0 THEN JFail
        ELSE JOk(JNum(neg /\ d # <<>>, d, e1 > i1, SubSeq(s, p, e1 - 1)), e1)
      exponent(neg, i0, i1, f1, x1) ==
        number(neg, i0, i1,
               IF x1 # 0 /\ x1 <= Len(s) /\ s[x1] \in Digits THEN digits_end(s, x1) ELSE f1,
               StripZeros(DigitVals(SubSeq(s, i0, i1 - 1))))
      exponent_sign(neg, i0, i1, f1, x0) ==
        exponent(neg, i0, i1, f1,
                 IF x0 # 0 /\ x0 <= Len(s) /\ s[x0] \in {"+", "-"} THEN x0 + 1 ELSE x0)
      fraction(neg, i0, i1, f1) ==
        exponent_sign(neg, i0, i1, f1, IF f1 <= Len(s) /\ s[f1] = "e" THEN f1 + 1 ELSE 0)
      integer(neg, i0, i1) ==
        fraction(neg, i0, i1,
                 IF i1 < Len(s) /\ s[i1] = "." /\ s[i1 + 1] \in Digits
                   THEN digits_end(s, i1 + 1) ELSE i1)
      minus(neg, i0) ==
        integer(neg, i0, IF i0 <= Len(s) /\ s[i0] = "0" THEN i0 + 1 ELSE digits_end(s, i0))
      sign(neg) == minus(neg, IF neg THEN p + 1 ELSE p)
  IN  sign(p <= Len(s) /\ s[p] = "-")

\* A string: the characters up to the closing quote; a control character
\* (a newline, a tab) inside it is an error.
parse_string(s, p) ==
  LET string(q, body) ==
        IF q > Len(s) \/ \E i \in 1..Len(body) : body[i] \in {"\n", "\t"} THEN JFail
        ELSE JOk(JStr(body), q + 1)
      closing(q) == string(q, SubSeq(s, p + 1, q - 1))
  IN  closing(FindFrom(s, p + 1, {"\""}))

\* dict[key] = value: a repeated key keeps its place and takes the new value.
obj_put(o, key, val) ==
  IF \E i \in 1..Len(o.keys) : o.keys[i] = key
    THEN JObj(o.keys, [o.vals EXCEPT ![CHOOSE i \in 1..Len(o.keys) : o.keys[i] = key] = val])
    ELSE JObj(Append(o.keys, key), Append(o.vals, val))

RECURSIVE parse_value(_, _)
RECURSIVE parse_members(_, _, _)
RECURSIVE parse_items(_, _, _)

\* The members of an object from the key at p, added to o.
parse_members(s, p, o) ==
  IF p > Len(s) \/ s[p] # "\"" THEN JFail
  ELSE
    LET member(k, c, v, e, put) ==
          IF ~k.ok \/ c > Len(s) \/ s[c] # ":" THEN JFail
          ELSE IF ~v.ok \/ e > Len(s) THEN JFail
          ELSE IF s[e] = "}" THEN JOk(put, e + 1)
          ELSE IF s[e] = "," THEN parse_members(s, skip_ws(s, e + 1), put)
          ELSE JFail
        value(k, c, v) == member(k, c, v, skip_ws(s, v.next), obj_put(o, k.val.s, v.val))
        colon(k, c) == value(k, c, parse_value(s, skip_ws(s, c + 1)))
        key(k) == colon(k, skip_ws(s, k.next))
    IN  key(parse_string(s, p))

\* The items of an array from the value at p, added to items.
parse_items(s, p, items) ==
  LET item(v, e, appended) ==
        IF ~v.ok \/ e > Len(s) THEN JFail
        ELSE IF s[e] = "]" THEN JOk(JArr(appended), e + 1)
        ELSE IF s[e] = "," THEN parse_items(s, skip_ws(s, e + 1), appended)
        ELSE JFail
      value(v) == item(v, skip_ws(s, v.next), Append(items, v.val))
  IN  value(parse_value(s, p))

parse_value(s, p) ==
  IF p > Len(s) THEN JFail
  ELSE IF s[p] = "\"" THEN parse_string(s, p)
  ELSE IF s[p] = "{" THEN
    LET object(q) ==
          IF q <= Len(s) /\ s[q] = "}" THEN JOk(JObj(<<>>, <<>>), q + 1)
          ELSE parse_members(s, q, JObj(<<>>, <<>>))
    IN  object(skip_ws(s, p + 1))
  ELSE IF s[p] = "[" THEN
    LET array(q) ==
          IF q <= Len(s) /\ s[q] = "]" THEN JOk(JArr(<<>>), q + 1)
          ELSE parse_items(s, q, <<>>)
    IN  array(skip_ws(s, p + 1))
  ELSE parse_number(s, p)

\* json.loads(s): ok is FALSE for JSONDecodeError (also for text after the value).
json_loads(s) ==
  LET document(v) == IF v.ok /\ skip_ws(s, v.next) = Len(s) + 1 THEN v ELSE JFail
  IN  document(parse_value(s, skip_ws(s, 1)))

(***************************************************************************)
(* str() and repr() of the values json.loads returns                       *)
(***************************************************************************)

RECURSIVE StripTrailingZeros(_)
StripTrailingZeros(d) ==
  IF d # <<>> /\ d[Len(d)] = 0 THEN StripTrailingZeros(SubSeq(d, 1, Len(d) - 1)) ELSE d

DigitChars(d) == [i \in 1..Len(d) |-> DigitChar(d[i])]

\* repr of a float: positional for a decimal exponent in -4..15, else d.ddde+XX.
float_repr(x) ==
  LET shortest(sd, e10, X, sign, c, xs) ==
      CASE x.k = "inf" -> sign \o <<"i", "n", "f">>
        [] x.k = "nan" -> <<"n", "a", "n">>
        [] x.k = "fin" /\ sd = <<>> -> sign \o <<"0", ".", "0">>
        [] x.k = "fin" /\ sd # <<>> /\ X >= 16 ->
             sign \o <<c[1]>> \o (IF Len(c) > 1 THEN <<".">> \o Tail(c) ELSE <<>>)
                  \o <<"e", "+">> \o xs
        [] x.k = "fin" /\ sd # <<>> /\ X < 0 - 4 ->
             sign \o <<c[1]>> \o (IF Len(c) > 1 THEN <<".">> \o Tail(c) ELSE <<>>)
                  \o <<"e", "-">> \o (IF Len(xs) < 2 THEN <<"0">> ELSE <<>>) \o xs
        [] x.k = "fin" /\ sd # <<>> /\ X < 16 /\ e10 >= 0 ->
             sign \o c \o DigitChars(Zeros(e10)) \o <<".", "0">>
        [] x.k = "fin" /\ sd # <<>> /\ X >= 0 /\ e10 < 0 ->
             sign \o SubSeq(c, 1, X + 1) \o <<".">> \o SubSeq(c, X + 2, Len(c))
        [] x.k = "fin" /\ sd # <<>> /\ X < 0 /\ X >= 0 - 4 ->
             sign \o <<"0", ".">> \o DigitChars(Zeros(0 - X - 1)) \o c
      exponent(sd, e10, X) ==
        shortest(sd, e10, X, IF x.neg THEN <<"-">> ELSE <<>>, DigitChars(sd),
                 str_of_nat(IF X < 0 THEN 0 - X ELSE X))
      scaled(sd, e10) == exponent(sd, e10, Len(sd) + e10 - 1)
      digits(sd) == scaled(sd, x.e10 + (Len(x.digs) - Len(sd)))
  IN  digits(StripTrailingZeros(x.digs))

int_str(neg, digs) ==
  (IF neg THEN <<"-">> ELSE <<>>) \o (IF digs = <<>> THEN <<"0">> ELSE DigitChars(digs))

str_repr(x) ==
  IF \E i \in 1..Len(x) : x[i] = "'" THEN <<"\"">> \o x \o <<"\"">> ELSE <<"'">> \o x \o <<"'">>

RECURSIVE py_repr(_)
RECURSIVE join_reprs(_)
RECURSIVE join_items(_, _)

\* ", ".join(parts)
join_reprs(parts) ==
  IF parts = <<>> THEN <<>>
  ELSE IF Len(parts) = 1 THEN parts[1]
  ELSE parts[1] \o <<",", " ">> \o join_reprs(Tail(parts))

\* The reprs of "key: value" for the members of an object from index i.
join_items(o, i) ==
  IF i > Len(o.keys) THEN <<>>
  ELSE <<str_repr(o.keys[i]) \o <<":", " ">> \o py_repr(o.vals[i])>> \o join_items(o, i + 1)

py_repr(v) ==
  CASE v.t = "num" -> IF v.isfloat THEN float_repr(float(v.lit)) ELSE int_str(v.neg, v.digs)
    [] v.t = "str" -> str_repr(v.s)
    [] v.t = "arr" ->
         <<"[">> \o join_reprs([i \in 1..Len(v.items) |-> py_repr(v.items[i])]) \o <<"]">>
    [] v.t = "obj" -> <<"{">> \o join_reprs(join_items(v, 1)) \o <<"}">>

\* str(v)
py_str(v) == IF v.t = "str" THEN v.s ELSE py_repr(v)

\* str(obj.get(header, ''))
obj_get_str(o, header) ==
  LET get(keys) ==
        IF \E i \in 1..Len(keys) : keys[i] = header
          THEN py_str(o.vals[CHOOSE i \in 1..Len(keys) : keys[i] = header])
          ELSE <<>>
  IN  get(o.keys)

(***************************************************************************)
(* sorted() of strings: by code point                                      *)
(***************************************************************************)

\* The characters of the model in code-point order.
CodePointOrder ==
  <<"\t", "\n", " ", "\"", "'", "+", ",", "-", ".",
    "0", "1", "2", "3", "4", "5", "6", "7", "8", "9", ":", ";", "[", "]", "_",
    "a", "b", "c", "d", "e", "f", "g", "h", "i", "j", "k", "l", "m",
    "n", "o", "p", "q", "r", "s", "t", "u", "v", "w", "x", "y", "z", "{", "|", "}">>

ord(c) == CHOOSE i \in 1..Len(CodePointOrder) : CodePointOrder[i] = c

RECURSIVE str_less(_, _)
str_less(a, b) ==
  IF b = <<>> THEN FALSE
  ELSE IF a = <<>> THEN TRUE
  ELSE IF Head(a) # Head(b) THEN ord(Head(a)) < ord(Head(b))
  ELSE str_less(Tail(a), Tail(b))

RECURSIVE sorted(_)
sorted(S) ==
  IF S = {} THEN <<>>
  ELSE LET least(m) == <<m>> \o sorted(S \ {m})
       IN  least(CHOOSE x \in S : \A y \in S \ {x} : str_less(x, y))

(***************************************************************************)
(* FileFormatDetector.load_json                                            *)
(***************************************************************************)

\* '\n'.join(lines)
RECURSIVE join_lines(_)
join_lines(lines) ==
  IF lines = <<>> THEN <<>>
  ELSE IF Len(lines) = 1 THEN lines[1]
  ELSE lines[1] \o <<"\n">> \o join_lines(Tail(lines))

json_rows(objects, headers) ==
  [i \in 1..Len(objects) |-> [j \in 1..Len(headers) |-> obj_get_str(objects[i], headers[j])]]

\* A result whose has_headers is False.
json_loaded_unflagged(headers, rows) == Loaded(4, headers, rows, FALSE, rows)

\* The rows of the objects under the headers; has_headers is True and
\* all_rows are the rows.
json_loaded(headers, rows) == Loaded(4, headers, rows, TRUE, rows)

json_table(objects, headers) == json_loaded(headers, json_rows(objects, headers))

\* An array whose first item is an object: obj.get raises on an item that
\* is no dict.
json_array(items) ==
  IF \E i \in 1..Len(items) : items[i].t # "obj"
    THEN LoadRaised
    ELSE json_table(items, items[1].keys)

\* The keys of the first object alone.
first_keys(objects) == {objects[1].keys[j] : j \in 1..Len(objects[1].keys)}

all_keys(objects) ==
  UNION {{objects[i].keys[j] : j \in 1..Len(objects[i].keys)} : i \in 1..Len(objects)}

\* Newline-delimited JSON: the lines that are objects, under the sorted
\* union of their keys.
json_objects(objects) ==
  IF objects # <<>>
    THEN json_table(objects, sorted(all_keys(objects)))
    ELSE Loaded(4, <<>>, <<>>, FALSE, <<>>)

json_accepted(parsed) ==
  json_objects([i \in 1..Len(parsed) |-> parsed[i].val])

json_lines(lines) ==
  json_accepted(SelectSeq([i \in 1..Len(lines) |-> json_loads(strip(lines[i]))],
                          LAMBDA r : r.ok /\ r.val.t = "obj"))

json_content(content, data) ==
  IF data.ok /\ data.val.t = "arr" /\ data.val.items # <<>> /\ data.val.items[1].t = "obj"
    THEN json_array(data.val.items)
    ELSE json_lines(split(content, "\n"))

json_text(content) == json_content(content, json_loads(content))

load_json(file) == json_text(strip(join_lines(file.lines)))

(***************************************************************************)
(* FileFormatDetector.detect_and_load                                      *)
(***************************************************************************)

loader(format_name, file) ==
  CASE format_name = "CSV" -> load_csv(file)
    [] format_name = "JSON" -> load_json(file)
    [] format_name = "TEXT" -> load_text(file)

\* The format the extension selects, or "none".
extension_format(file_ext) ==
  IF file_ext = ".csv" THEN "CSV"
  ELSE IF file_ext = ".json" THEN "JSON"
  ELSE IF file_ext \in {".txt", ".tsv", ".dat"} THEN "TEXT"
  ELSE "none"

formats_to_try_text_first == <<"TEXT", "CSV", "JSON">>

\* The fallback list of detect_and_load.
formats_to_try == <<"CSV", "JSON", "TEXT">>

\* headers, rows, has_headers, all_rows = loader(file): the call returned and
\* the tuple has the four values the assignment unpacks.
unpacks(r) == ~r.raises /\ r.n = 4

Detected(r, format_name) ==
  [raises |-> FALSE, headers |-> r.headers, rows |-> r.rows, has_headers |-> r.has_headers,
   detected_format |-> format_name, all_rows |-> r.all_rows]

DetectRaised ==
  [raises |-> TRUE, headers |-> <<>>, rows |-> <<>>, has_headers |-> FALSE,
   detected_format |-> "none", all_rows |-> <<>>]

\* A fallback loop that would accept any result that unpacks.
accepts_any(r) == unpacks(r)

\* Whether the fallback loop accepts the result of a format.
accepts(r) == unpacks(r) /\ r.headers # <<>> /\ r.rows # <<>>

\* The fallback loop from the i-th format on: the result r of the i-th
\* format is returned when it has headers and rows.
RECURSIVE try_formats(_, _)
RECURSIVE accept_or_continue(_, _, _)
accept_or_continue(file, i, r) ==
  IF accepts(r)
    THEN Detected(r, formats_to_try[i])
    ELSE try_formats(file, i + 1)

try_formats(file, i) ==
  IF i > Len(formats_to_try) THEN DetectRaised
  ELSE accept_or_continue(file, i, loader(formats_to_try[i], file))

\* The branch of the extension: its result r is returned as it is.
by_extension(file, by_ext, r) ==
  IF by_ext # "none" /\ unpacks(r) THEN Detected(r, by_ext) ELSE try_formats(file, 1)

detect_and_load_as(file, by_ext) ==
  by_extension(file, by_ext, IF by_ext # "none" THEN loader(by_ext, file) ELSE LoadRaised)

detect_and_load(file) == detect_and_load_as(file, extension_format(file.ext))

(***************************************************************************)
(* DataTypeDetector.detect_type and SchemaManager.detect_schema            *)
(***************************************************************************)

numeric_den == 5

\* A threshold of all the values.
numeric_num_all == numeric_den

\* 0.8 as the fraction numeric_num / numeric_den
numeric_num == 4

detect_type(values) ==
  LET decided(total_values, total_numeric, real_count) ==
        IF values = <<>> \/ total_values = 0 THEN "TEXT"
        ELSE IF numeric_den * total_numeric >= numeric_num * total_values
          THEN IF real_count = 0 THEN "INTEGER" ELSE "REAL"
        ELSE "TEXT"
      counted(total_values, integer_count, real_count) ==
        decided(total_values, integer_count + real_count, real_count)
      \* A value counts as an integer when int() takes it, else as a real when
      \* float() takes it.
      is_integer(v) == int(v).ok
      classified(non_empty_values, integers) ==
        counted(Len(non_empty_values), Len(integers),
                Len(SelectSeq(non_empty_values,
                              LAMBDA v : ~is_integer(v) /\ float(v).k # "err")))
      non_empty(non_empty_values) ==
        classified(non_empty_values, SelectSeq(non_empty_values, is_integer))
      stripped(vs) == non_empty(SelectSeq(vs, LAMBDA v : v # <<>>))
  IN  stripped([i \in 1..Len(values) |-> strip(values[i])])

\* rows[:100] and the five preview values
schema_sample_rows == 100
preview_size == 5

detect_schema(headers, rows) ==
  LET column(i, column_values, non_blank) ==
        [name |-> strip(headers[i]),
         type |-> detect_type(column_values),
         preview |-> SubSeq(non_blank, 1, Min(preview_size, Len(non_blank)))]
      values(i, column_values) ==
        column(i, column_values,
               SelectSeq([k \in 1..Len(column_values) |-> strip(column_values[k])],
                         LAMBDA v : v # <<>>))
      present_rows(i, present) == values(i, [k \in 1..Len(present) |-> present[k][i]])
      sampled(i, sample) == present_rows(i, SelectSeq(sample, LAMBDA row : i <= Len(row)))
  IN  [i \in 1..Len(headers) |->
         sampled(i, SubSeq(rows, 1, Min(schema_sample_rows, Len(rows))))]

(***************************************************************************)
(* The store: SQLite behind the one connection of DatabaseManager.         *)
(* store is the committed content, which is what another connection reads; *)
(* txn holds the rows inserted in the connection's open transaction.       *)
(***************************************************************************)

Letters == {"a", "b", "c", "d", "e", "f", "g", "h", "i", "j", "k", "l", "m",
            "n", "o", "p", "q", "r", "s", "t", "u", "v", "w", "x", "y", "z"}

\* re.sub(r'[^a-zA-Z0-9_]', '_', name)
sanitize(name) ==
  [i \in 1..Len(name) |-> IF name[i] \in Letters \cup Digits \cup {"_"} THEN name[i] ELSE "_"]

NoRelation == [exists |-> FALSE, cols |-> <<>>, rows |-> <<>>]

\* The largest magnitudes of a 64-bit signed integer.
INT64_MAX_DIGITS == <<9, 2, 2, 3, 3, 7, 2, 0, 3, 6, 8, 5, 4, 7, 7, 5, 8, 0, 7>>
INT64_MIN_DIGITS == <<9, 2, 2, 3, 3, 7, 2, 0, 3, 6, 8, 5, 4, 7, 7, 5, 8, 0, 8>>

\* Binding a Python int beyond 64 bits raises OverflowError.
binds(v) ==
  v.t # "int" \/ Len(v.digs) < Len(INT64_MAX_DIGITS)
  \/ (Len(v.digs) = Len(INT64_MAX_DIGITS)
      /\ DigitsGeq(IF v.neg THEN INT64_MIN_DIGITS ELSE INT64_MAX_DIGITS, v.digs))

\* The statement INSERT INTO table (col_names) can be prepared: the relation
\* exists and has every named column.
insert_prepares(st, table, col_names) ==
  /\ st[table].exists
  /\ \A i \in 1..Len(col_names) :
       \E j \in 1..Len(st[table].cols) : st[table].cols[j].name = col_names[i]

\* The number of leading rows of batch_data whose values all bind.
RECURSIVE bound_prefix(_)
bound_prefix(batch_data) ==
  IF batch_data = <<>> \/ \E j \in 1..Len(Head(batch_data)) : ~binds(Head(batch_data)[j])
    THEN 0
    ELSE 1 + bound_prefix(Tail(batch_data))

\* conn.executemany(insert_sql, batch_data): the rows inserted into the open
\* transaction, and whether the statement failed (at its preparation, or at
\* the first row that does not bind, the rows before it staying inserted).
executemany(st, table, col_names, batch_data, src) ==
  LET executed(n) ==
        [failed |-> n < Len(batch_data),
         inserted |-> [k \in 1..n |->
                         [table |-> table, src |-> src, cols |-> col_names,
                          vals |-> batch_data[k]]]]
  IN  executed(IF insert_prepares(st, table, col_names) THEN bound_prefix(batch_data) ELSE 0)

commit_head(st, pending) ==
  IF pending = <<>> THEN st
  ELSE [st EXCEPT ![Head(pending).table].rows = Append(@, Head(pending))]

\* conn.commit(): the rows of the open transaction become part of the store.
RECURSIVE commit(_, _)
commit(st, pending) ==
  IF pending = <<>> THEN st
  ELSE commit([st EXCEPT ![Head(pending).table].rows = Append(@, Head(pending))],
              Tail(pending))

rollback_keeps(pending) == pending

\* conn.rollback(): the rows of the open transaction are discarded.
rollback(pending) == <<>>

close_commits(st, pending) == [store |-> commit(st, pending), txn |-> <<>>]

\* conn.close(): the connection is released without a commit, so the rows of
\* its open transaction never reach the store.
close_connection(st, pending) == [store |-> st, txn |-> <<>>]

\* CREATE TABLE IF NOT EXISTS: a syntax error for an empty column list;
\* nothing for an existing relation; otherwise an error for a repeating
\* column list.
create_fails(st, table, columns) ==
  \/ columns = <<>>
  \/ /\ ~st[table].exists
     /\ \E i, j \in 1..Len(columns) : i # j /\ columns[i].name = columns[j].name

\* A statement that creates nothing.
create_nothing(st, table, columns) == st

\* A statement that replaces the relation of the name.
create_or_replace(st, table, columns) ==
  [st EXCEPT ![table] = [exists |-> TRUE, cols |-> columns, rows |-> <<>>]]

create_statement(st, table, columns) ==
  IF st[table].exists THEN st
  ELSE [st EXCEPT ![table] = [exists |-> TRUE, cols |-> columns, rows |-> <<>>]]

(***************************************************************************)
(* DatabaseManager.insert_data: one pass of the batch loop                 *)
(***************************************************************************)

\* The source's batch_size is 1000; the model loads files of a few rows and
\* scales the batch down so that one call spans several batches.
batch_size == 2

\* A conversion that keeps the padding of a short row as an empty text.
converted_row_keeps_padding(row, schema) ==
  [j \in 1..Len(schema) |->
     IF j <= Len(row) THEN _convert_value(row[j], schema[j].type)
     ELSE Returned(TextValue(<<>>))]

\* padded_row[:len(schema)] converted column by column.
converted_row(row, schema) ==
  [j \in 1..Len(schema) |->
     _convert_value(IF j <= Len(row) THEN row[j] ELSE <<>>, schema[j].type)]

\* Whether the conversion of some value of the batch raises.
preparation_raises(batch, schema) ==
  \E k \in 1..Len(batch) : \E j \in 1..Len(schema) :
    converted_row(batch[k], schema)[j].raises # "none"

batch_data(batch, schema) ==
  [k \in 1..Len(batch) |-> [j \in 1..Len(schema) |-> converted_row(batch[k], schema)[j].val]]

col_names(schema) == [j \in 1..Len(schema) |-> sanitize(schema[j].name)]

(***************************************************************************)
(* SchemaManager.get_table_name                                            *)
(***************************************************************************)

reserved_words ==
  {<<"t", "a", "b", "l", "e">>,
   <<"i", "n", "d", "e", "x">>,
   <<"s", "e", "l", "e", "c", "t">>,
   <<"i", "n", "s", "e", "r", "t">>,
   <<"u", "p", "d", "a", "t", "e">>,
   <<"d", "e", "l", "e", "t", "e">>,
   <<"c", "r", "e", "a", "t", "e">>,
   <<"d", "r", "o", "p">>,
   <<"a", "l", "t", "e", "r">>,
   <<"w", "h", "e", "r", "e">>,
   <<"f", "r", "o", "m">>,
   <<"j", "o", "i", "n">>,
   <<"o", "r", "d", "e", "r">>,
   <<"g", "r", "o", "u", "p">>,
   <<"h", "a", "v", "i", "n", "g">>,
   <<"u", "n", "i", "o", "n">>}

\* ^[a-zA-Z_][a-zA-Z0-9_]*$ and not a reserved word
valid_table_name(name) ==
  /\ name # <<>>
  /\ name[1] \in Letters \cup {"_"}
  /\ \A i \in 1..Len(name) : name[i] \in Letters \cup Digits \cup {"_"}
  /\ name \notin reserved_words

(***************************************************************************)
(* main: the run over args.files through the one connection                *)
(***************************************************************************)

VARIABLES
  files,      \* args.files: the files of the invocation, in order
  table_arg,  \* args.table, or NoName
  pc,         \* where main is
  idx,        \* the index in files of file_path, the file being processed
  conn,       \* db_manager.conn: "none", "open" or "closed"
  store,      \* the committed content of the database, by relation name
  txn,        \* the rows inserted in the connection's open transaction
  cur,        \* main's locals for the current file
  ins,        \* insert_data's locals: i, the start of the next batch, and imported
  status,     \* the state of each file's pipeline
  exit_code,  \* the exit status of the process, -1 while it runs
  input,      \* the argument of the function under check (function specifications)
  output      \* its result

vars == <<files, table_arg, pc, idx, conn, store, txn, cur, ins, status, exit_code,
          input, output>>

NoName == <<>>

\* The names of the relations of the store, and what a user types: the names
\* of fields (_get_manual_headers), the names (nothing keeps the name) and the
\* types (nothing keeps the type) in _edit_schema, the name in get_table_name
\* (nothing takes the default).
TableNames == {<<"t">>, <<"u">>}
ManualNames == {<<"a">>, <<"b">>}
EditNames == {<<>>}
EditTypes == {"INTEGER"}
TypedTableNames == {<<>>, <<"u">>}

\* The files of the invocations that are checked.
GoodFile ==
  [ext |-> ".txt", stem |-> <<"t">>, lines |-> <<<<"a">>, <<"1">>, <<"2">>, <<"3">>>>, exists |-> TRUE]
\* An integer beyond 64 bits: sqlite3 refuses to bind it.
BigInt == <<"9", "2", "2", "3", "3", "7", "2", "0", "3", "6", "8", "5", "4", "7", "7",
            "5", "8", "0", "8">>
BigFile ==
  [ext |-> ".txt", stem |-> <<"u">>, lines |-> <<<<"b">>, <<"1">>, <<"2">>, BigInt>>, exists |-> TRUE]
EmptyFile ==
  [ext |-> ".txt", stem |-> <<"u">>, lines |-> <<>>, exists |-> TRUE]
DupFile ==
  [ext |-> ".csv", stem |-> <<"u">>, lines |-> <<<<"a", ",", "a">>, <<"1", ",", "2">>>>, exists |-> TRUE]
JsonFile ==
  [ext |-> ".json", stem |-> <<"t">>, lines |-> <<<<"{", "\"", "a", "\"", ":", "1", "}">>, <<"{", "\"", "b", "\"", ":", "2", "}">>>>, exists |-> TRUE]
NoDataFile ==
  [ext |-> ".json", stem |-> <<"u">>, lines |-> <<<<"4", "2">>>>, exists |-> TRUE]
MissingFile ==
  [ext |-> ".csv", stem |-> <<"t">>, lines |-> <<<<"a">>, <<"1">>>>, exists |-> FALSE]

Corpus == {GoodFile, BigFile, EmptyFile, DupFile, JsonFile, NoDataFile, MissingFile}

\* What csv.Sniffer.has_header may answer.
SniffAnswers == {"yes", "no", "error"}

WithSniff(f, a) ==
  [ext |-> f.ext, stem |-> f.stem, lines |-> f.lines, exists |-> f.exists, sniff |-> a]

\* Every file of the corpus with every answer of the sniffer that load_csv can
\* come to ask for.
Sniffed(F) ==
  {WithSniff(f, a) : f \in {g \in F : g.ext = ".csv" /\ g.exists}, a \in SniffAnswers}
  \cup {WithSniff(f, "yes") : f \in {g \in F : g.ext # ".csv" \/ ~g.exists}}

MaxFiles == 2

\* The database the run opens: new, or holding a relation t from earlier runs.
OldRow == [table |-> <<"t">>, src |-> 0, cols |-> <<<<"a">>>>,
           vals |-> <<IntegerValue(FALSE, <<7>>)>>]
EmptyStore == [n \in TableNames |-> NoRelation]
InitialStores ==
  {EmptyStore,
   [EmptyStore EXCEPT ![<<"t">>] =
      [exists |-> TRUE, cols |-> <<[name |-> <<"a">>, type |-> "INTEGER"]>>,
       rows |-> <<OldRow>>]],
   [EmptyStore EXCEPT ![<<"t">>] =
      [exists |-> TRUE, cols |-> <<[name |-> <<"z">>, type |-> "TEXT"]>>,
       rows |-> <<>>]]}

NoCur == [headers |-> <<>>, rows |-> <<>>, has_headers |-> FALSE, detected_format |-> "none",
          all_rows |-> <<>>, schema |-> <<>>, table_name |-> <<>>]
NoIns == [i |-> 0, imported |-> 0]

\* input and output while no function is under check, and before the call.
NoCall == [f |-> "none"]
NotCalled == [called |-> FALSE]

\* The lists of at most n files of F.
FileLists(F, n) == UNION {[1..k -> F] : k \in 1..n}

InitRun(lists, table_args, stores) ==
  /\ files \in lists
  /\ table_arg \in table_args
  /\ store \in stores
  /\ pc = "connect"
  /\ idx = 0
  /\ conn = "none"
  /\ txn = <<>>
  /\ cur = NoCur
  /\ ins = NoIns
  /\ status = [i \in 1..Len(files) |-> "PENDING"]
  /\ exit_code = 0 - 1
  /\ input = NoCall
  /\ output = NotCalled

Init == InitRun(FileLists(Sniffed(Corpus), MaxFiles), {NoName, <<"t">>}, {EmptyStore})

SetStatus(st) == status' = [status EXCEPT ![idx] = st]

after_abort_continues == "next_file"

\* The answer n to confirm_schema: sys.exit(0), which no handler of main
\* catches, so that main is left through its finally clause.
after_abort == "finally"

after_file_error_fatal == "finally"

after_file_error_retries == "DETECTING"

\* main's handler of an exception in one file's pipeline: the error is
\* printed and the loop goes on with the next file.
after_file_error == "next_file"

\* The column definitions create_table builds from the schema.
column_defs(schema) ==
  [i \in 1..Len(schema) |-> [name |-> sanitize(schema[i].name), type |-> schema[i].type]]

\* db_manager.connect(): a failure is fatal for the run.
Connect ==
  /\ pc = "connect"
  /\ \/ conn' = "open" /\ pc' = "next_file" /\ UNCHANGED exit_code
     \/ conn' = conn /\ pc' = "finally" /\ exit_code' = 1
  /\ UNCHANGED <<files, table_arg, idx, store, txn, cur, ins, status, input, output>>

\* for file_path in args.files, with the check that the file exists; after
\* the last file main starts the query shell.
NextFile ==
  /\ pc = "next_file"
  /\ IF idx < Len(files)
       THEN /\ idx' = idx + 1
            /\ IF files[idx + 1].exists
                 THEN pc' = "DETECTING" /\ status' = [status EXCEPT ![idx + 1] = "DETECTING"]
                 ELSE pc' = pc /\ status' = [status EXCEPT ![idx + 1] = "NOT_FOUND"]
       ELSE pc' = "shell" /\ UNCHANGED <<idx, status>>
  /\ ins' = NoIns
  /\ UNCHANGED <<files, table_arg, conn, store, txn, cur, exit_code, input, output>>

\* detect_and_load and the check for no data.
DetectAndLoad ==
  /\ pc = "DETECTING"
  /\ \E r \in {detect_and_load(files[idx])} :
         IF r.raises
           THEN pc' = after_file_error /\ SetStatus("FAILED") /\ cur' = NoCur
         ELSE IF r.headers = <<>> \/ r.rows = <<>>
           THEN pc' = "next_file" /\ SetStatus("NO_DATA") /\ cur' = NoCur
         ELSE /\ pc' = "confirm_headers"
              /\ cur' = [NoCur EXCEPT !.headers = r.headers, !.rows = r.rows,
                                      !.has_headers = r.has_headers,
                                      !.detected_format = r.detected_format,
                                      !.all_rows = r.all_rows]
              /\ UNCHANGED status
  /\ UNCHANGED <<files, table_arg, idx, conn, store, txn, ins, exit_code, input, output>>

\* Whether main asks the user about the headers of the current file.
asks_confirm_headers == cur.has_headers /\ Len(cur.all_rows) > 1
asks_manual_headers == ~cur.has_headers /\ cur.all_rows # <<>>

\* confirm_headers or _get_manual_headers, then detect_schema and its display.
ConfirmHeaders ==
  /\ pc = "confirm_headers"
  /\ \E answer \in IF asks_confirm_headers THEN {"y", "n"} ELSE {"y"} :
     \E manual \in {(asks_confirm_headers /\ answer = "n") \/ asks_manual_headers} :
     \E n \in {IF asks_confirm_headers THEN Len(cur.headers) ELSE Len(cur.all_rows[1])} :
     \E names \in IF manual THEN [1..n -> ManualNames] ELSE {<<>>} :
     \E headers \in {IF manual THEN names ELSE cur.headers} :
     \E rows \in {IF manual THEN cur.all_rows ELSE cur.rows} :
       cur' = [cur EXCEPT !.headers = headers, !.rows = rows,
                          !.schema = detect_schema(headers, rows)]
  /\ pc' = "confirm_schema"
  /\ SetStatus("SCHEMA_PROPOSED")
  /\ UNCHANGED <<files, table_arg, idx, conn, store, txn, ins, exit_code, input, output>>

\* _edit_schema: a new name where one is typed, a new type where one is typed.
edited_schema(schema, names, types) ==
  [i \in 1..Len(schema) |->
     [name |-> IF names[i] = <<>> THEN schema[i].name ELSE names[i],
      type |-> IF types[i] = "" THEN schema[i].type ELSE types[i],
      preview |-> schema[i].preview]]

\* confirm_schema: y keeps the schema, edit changes it, n is sys.exit(0).
ConfirmSchema ==
  /\ pc = "confirm_schema"
  /\ \/ /\ pc' = "get_table_name" /\ SetStatus("RECONCILED")
        /\ UNCHANGED <<cur, exit_code>>
     \/ /\ \E names \in [1..Len(cur.schema) -> EditNames] :
             \E types \in [1..Len(cur.schema) -> EditTypes] :
               cur' = [cur EXCEPT !.schema = edited_schema(cur.schema, names, types)]
        /\ pc' = "get_table_name" /\ SetStatus("RECONCILED")
        /\ UNCHANGED exit_code
     \/ /\ pc' = after_abort /\ SetStatus("CANCELLED") /\ exit_code' = 0
        /\ cur' = NoCur
  /\ UNCHANGED <<files, table_arg, idx, conn, store, txn, ins, input, output>>

\* get_table_name: the default or a typed name, asked again until it is valid.
GetTableName ==
  /\ pc = "get_table_name"
  /\ \E typed \in TypedTableNames :
     \E default_name \in {IF table_arg # NoName THEN table_arg ELSE files[idx].stem} :
     \E table_name \in {IF typed = <<>> THEN default_name ELSE typed} :
       /\ valid_table_name(table_name)
       /\ cur' = [cur EXCEPT !.table_name = table_name]
  /\ pc' = "create_table"
  /\ UNCHANGED <<files, table_arg, idx, conn, store, txn, ins, status, exit_code,
                 input, output>>

\* create_table: the statement and its commit, or RuntimeError.
create_table ==
  /\ pc = "create_table"
  /\ \E table \in {sanitize(cur.table_name)} :
     \E columns \in {column_defs(cur.schema)} :
         IF conn # "open" \/ create_fails(store, table, columns)
           THEN /\ pc' = after_file_error /\ SetStatus("FAILED")
                /\ cur' = NoCur
                /\ UNCHANGED <<store, txn>>
           ELSE /\ store' = commit(create_statement(store, table, columns), txn)
                /\ txn' = <<>>
                /\ pc' = "insert_data" /\ SetStatus("RELATION_ENSURED")
                /\ UNCHANGED cur
  /\ ins' = NoIns
  /\ UNCHANGED <<files, table_arg, idx, conn, exit_code, input, output>>

\* insert_data, one pass of its loop: the batch is converted and handed to
\* executemany; an exception in either rolls the transaction back and ends
\* the call with RuntimeError.
insert_batch ==
  /\ pc = "insert_data"
  /\ cur.rows # <<>>
  /\ ins.i < Len(cur.rows)
  /\ \E batch \in {SubSeq(cur.rows, ins.i + 1, Min(ins.i + batch_size, Len(cur.rows)))} :
     \E r \in {executemany(store, sanitize(cur.table_name), col_names(cur.schema),
                           batch_data(batch, cur.schema), idx)} :
         IF conn # "open" \/ preparation_raises(batch, cur.schema) \/ r.failed
           THEN /\ txn' = rollback(txn \o r.inserted)
                /\ pc' = after_file_error /\ SetStatus("FAILED")
                /\ cur' = NoCur
                /\ UNCHANGED ins
           ELSE /\ txn' = txn \o r.inserted
                /\ ins' = [i |-> ins.i + batch_size, imported |-> ins.imported + Len(batch)]
                /\ pc' = pc /\ SetStatus("LOADING")
                /\ UNCHANGED cur
  /\ UNCHANGED <<files, table_arg, idx, conn, store, exit_code, input, output>>

\* insert_data after its last batch: the commit; with no rows, the return.
insert_commit ==
  /\ pc = "insert_data"
  /\ ins.i >= Len(cur.rows)
  /\ store' = IF cur.rows = <<>> THEN store ELSE commit(store, txn)
  /\ txn' = IF cur.rows = <<>> THEN txn ELSE <<>>
  /\ pc' = "next_file" /\ SetStatus("DONE")
  /\ cur' = NoCur
  /\ UNCHANGED ins
  /\ UNCHANGED <<files, table_arg, idx, conn, exit_code, input, output>>

\* The data-modifying statements one session of the query shell sends at most.
MaxShellStatements == 1

ShellRow(table) ==
  [table |-> table, src |-> 0, cols |-> <<>>, vals |-> <<>>]

\* SQLInterface.run, one statement typed at the prompt: execute_query hands
\* it to conn.execute and does not commit.  A data-modifying statement joins
\* the open transaction; COMMIT ends the open transaction, and is an error
\* that the loop of the shell prints when there is none.
execute_query ==
  /\ pc = "shell"
  /\ \E query \in {"INSERT", "COMMIT"} :
       IF query = "COMMIT"
         THEN /\ store' = commit(store, txn)
              /\ txn' = <<>>
         ELSE /\ Cardinality({k \in 1..Len(txn) : txn[k] = ShellRow(txn[k].table)})
                   + Cardinality(UNION {{<<n, k>> : k \in {m \in 1..Len(store[n].rows) :
                                                           store[n].rows[m] = ShellRow(n)}} :
                                          n \in TableNames})
                   < MaxShellStatements
              /\ \E table \in {n \in TableNames : store[n].exists} :
                   txn' = Append(txn, ShellRow(table))
              /\ UNCHANGED store
  /\ UNCHANGED <<files, table_arg, pc, idx, conn, cur, ins, status, exit_code,
                 input, output>>

\* SQLInterface.run ends: .exit, the end of the input or an interrupt.
ShellExit ==
  /\ pc = "shell"
  /\ pc' = "finally"
  /\ exit_code' = 0
  /\ UNCHANGED <<files, table_arg, idx, conn, store, txn, cur, ins, status, input, output>>

\* Where main waits at a prompt that turns KeyboardInterrupt into sys.exit(0).
at_prompt ==
  \/ pc = "confirm_headers" /\ (asks_confirm_headers \/ asks_manual_headers)
  \/ pc \in {"confirm_schema", "get_table_name"}

\* The process is interrupted (KeyboardInterrupt): at a prompt it becomes
\* sys.exit(0); in the file loop no handler catches it; both leave main
\* through its finally clause.
Interrupt ==
  /\ pc \in {"next_file", "DETECTING", "confirm_headers", "confirm_schema",
             "get_table_name", "create_table", "insert_data"}
  /\ pc' = "finally"
  /\ exit_code' = IF at_prompt THEN 0 ELSE 130
  /\ status' = IF pc = "next_file" THEN status ELSE [status EXCEPT ![idx] = "INTERRUPTED"]
  /\ cur' = NoCur
  /\ UNCHANGED <<files, table_arg, idx, conn, store, txn, ins, input, output>>

\* finally: db_manager.close().  Closing the connection discards its open
\* transaction.
close ==
  /\ pc = "finally"
  /\ conn' = IF conn = "open" THEN "closed" ELSE conn
  /\ \E closed \in {close_connection(store, txn)} :
       store' = closed.store /\ txn' = closed.txn
  /\ pc' = "exited"
  /\ UNCHANGED <<files, table_arg, idx, cur, ins, status, exit_code, input, output>>

Next ==
  \/ Connect
  \/ NextFile
  \/ DetectAndLoad
  \/ ConfirmHeaders
  \/ ConfirmSchema
  \/ GetTableName
  \/ create_table
  \/ insert_batch
  \/ insert_commit
  \/ execute_query
  \/ ShellExit
  \/ Interrupt
  \/ close

Spec == Init /\ [][Next]_vars

(***************************************************************************)
(* Runs over one file whose rows put a failure in any batch                *)
(***************************************************************************)

\* The rows of the files of these runs, at most MaxRows of them: a number,
\* a float with no integer value, and an integer beyond 64 bits.
MaxRows == 5
RowValues == {<<"1">>, <<"i", "n", "f">>, BigInt}

LoadFile(values) ==
  [ext |-> ".txt", stem |-> <<"t">>, lines |-> <<<<"b">>>> \o values, exists |-> TRUE,
   sniff |-> "yes"]

LoadFiles == {LoadFile(values) : values \in SeqsUpTo(RowValues, MaxRows) \ {<<>>}}

InitLoad == InitRun(FileLists(LoadFiles, 1), {NoName}, InitialStores)

SpecLoad == InitLoad /\ [][Next]_vars

(***************************************************************************)
(* insert_data: what one call leaves in the store                          *)
(***************************************************************************)

\* The rows of file i in the committed store, by relation.
stored(st, i) == [n \in TableNames |-> SelectSeq(st[n].rows, LAMBDA r : r.src = i)]

\* The rows the running call of insert_data was given, as they are stored.
call_rows ==
  [k \in 1..Len(cur.rows) |->
     [table |-> sanitize(cur.table_name), src |-> idx, cols |-> col_names(cur.schema),
      vals |-> batch_data(cur.rows, cur.schema)[k]]]

all_of_call == [n \in TableNames |-> IF n = sanitize(cur.table_name) THEN call_rows ELSE <<>>]
none_of_call == [n \in TableNames |-> <<>>]

\* Whether some batch of the running call fails, at its preparation or at
\* its statement.
call_fails ==
  \/ preparation_raises(cur.rows, cur.schema)
  \/ executemany(store, sanitize(cur.table_name), col_names(cur.schema),
                 batch_data(cur.rows, cur.schema), idx).failed

\* The running call of insert_data returns or raises in this step.
call_ends == pc = "insert_data" /\ status'[idx] \in {"DONE", "FAILED"}

\* C1: insert_data is all-or-nothing per call.  When a batch fails, whatever
\* its position, the call raises and leaves none of its rows in the store or
\* in the open transaction, the rows of the batches that had executed
\* included; when none fails, the commit that ends the call stores all of
\* its rows.
C1_AllOrNothing ==
  [][call_ends =>
       /\ call_fails <=> status'[idx] = "FAILED"
       /\ ~call_fails <=> status'[idx] = "DONE"
       /\ call_fails =>
            /\ stored(store', idx) = none_of_call
            /\ txn' = <<>>
       /\ ~call_fails => stored(store', idx) = all_of_call]_vars

\* A call has raised in a later batch, after whole batches had executed, and
\* none of its rows is in the store.
C1_Witness ==
  /\ pc = "next_file" /\ idx > 0 /\ status[idx] = "FAILED"
  /\ ins.imported > batch_size
  /\ stored(store, idx) = [n \in TableNames |-> <<>>]
  /\ txn = <<>>

\* C2: while a call of insert_data runs, the committed content of the store,
\* which is what a concurrent reader sees, holds none of the rows of the
\* call, and a step of the call leaves it holding none or all of them.
C2_ReaderSeesNoneOrAll ==
  [][pc = "insert_data" =>
       /\ stored(store, idx) = none_of_call
       /\ stored(store', idx) \in {none_of_call, all_of_call}]_vars

\* A call over several batches has executed some of them and not the last:
\* their rows are in the open transaction and the store has none of them.
C2_Witness ==
  /\ pc = "insert_data"
  /\ Len(cur.rows) > 2 * batch_size
  /\ ins.i >= batch_size /\ ins.i < Len(cur.rows)
  /\ Len(txn) = ins.imported /\ txn # <<>>
  /\ stored(store, idx) = none_of_call

\* C5: a run that is interrupted, at any point, leaves through the finally
\* clause, whose step closes the connection and discards the open
\* transaction without changing the store; the store never holds a row of a
\* file whose pipeline was interrupted.
C5_InterruptRollsBack ==
  [][/\ Interrupt => pc' = "finally"
     /\ pc = "finally" =>
          pc' = "exited" /\ conn' # "open" /\ txn' = <<>> /\ store' = store
     /\ \A i \in 1..Len(files) :
          status'[i] = "INTERRUPTED" => stored(store', i) = [n \in TableNames |-> <<>>]]_vars

\* The process was interrupted in insert_data after batches had executed; it
\* has exited with the connection closed and none of the rows in the store.
C5_Witness ==
  /\ pc = "exited" /\ exit_code = 130
  /\ idx > 0 /\ status[idx] = "INTERRUPTED"
  /\ ins.imported > 0
  /\ conn = "closed" /\ txn = <<>>
  /\ stored(store, idx) = [n \in TableNames |-> <<>>]

(***************************************************************************)
(* main: what one file's pipeline does to the rest of the run              *)
(***************************************************************************)

\* C3 as stated: the answer n to confirm_schema cancels only the current file: the run
\* goes on with the next file, with the store as it was.
C3_AbortCancelsOnlyThatFile ==
  [][idx > 0 /\ status[idx] # "CANCELLED" /\ status'[idx] = "CANCELLED" =>
       pc' = "next_file" /\ store' = store /\ exit_code' = exit_code]_vars

\* C3, amended: the answer n to confirm_schema ends the run.  The step
\* changes nothing in the store and leads to the finally clause with exit
\* status 0; nothing of the cancelled file is ever stored and no later file
\* is processed.
C3_AbortEndsRun ==
  [][\A i \in 1..Len(files) :
       status'[i] = "CANCELLED" =>
         /\ pc' \in {"finally", "exited"} /\ exit_code' = 0
         /\ status[i] # "CANCELLED" => store' = store /\ txn' = txn
         /\ stored(store', i) = [n \in TableNames |-> <<>>]
         /\ \A j \in (i + 1)..Len(files) : status'[j] = "PENDING"]_vars

\* The first of two files was loaded, the second was cancelled at its
\* schema: the run has ended with exit status 0, the rows of the first file
\* in the store.
C3_Witness ==
  /\ pc = "exited" /\ exit_code = 0 /\ conn = "closed"
  /\ Len(files) = 2 /\ status = <<"DONE", "CANCELLED">>
  /\ \E n \in TableNames : stored(store, 1)[n] # <<>>

\* The pipeline of the current file fails in this step.
file_fails == idx > 0 /\ status[idx] # "FAILED" /\ status'[idx] = "FAILED"

\* The current file comes after files that all failed or held nothing to
\* load, one of them at least having failed: without them the store would be
\* as it was when the run began.
after_failed_files ==
  /\ idx > 1
  /\ \A i \in 1..(idx - 1) : status[i] \in {"FAILED", "NOT_FOUND", "NO_DATA"}
  /\ \E i \in 1..(idx - 1) : status[i] = "FAILED"

\* The current file, with the schema and the name that were accepted, loads
\* when it is the only file of the run.
target == sanitize(cur.table_name)
loads_alone ==
  /\ ~create_fails(EmptyStore, target, column_defs(cur.schema))
  /\ ~preparation_raises(cur.rows, cur.schema)
  /\ ~executemany(create_statement(EmptyStore, target, column_defs(cur.schema)), target,
                  col_names(cur.schema), batch_data(cur.rows, cur.schema), idx).failed

\* The current file is loaded as it is when it is the only file of the run.
loaded_as_alone ==
  /\ pc = "create_table" /\ pc' # "finally" => pc' = "insert_data"
  /\ pc = "insert_data" /\ pc' # "finally" => status'[idx] # "FAILED"
  /\ call_ends => status'[idx] = "DONE" /\ stored(store', idx) = all_of_call

\* The relation the current file loads into is absent or has the columns of
\* the file's schema.
relation_fits == ~store[target].exists \/ store[target].cols = column_defs(cur.schema)

\* C4 as stated: a failure of one file's pipeline ends that pipeline only,
\* and a later file that loads alone is loaded exactly as when the failed
\* files are not in the list; main leaves the shell with exit status 0.
C4_FailureAbortsOnlyThatFile ==
  [][/\ file_fails => pc' = "next_file" /\ exit_code' = exit_code
     /\ after_failed_files /\ pc \in {"create_table", "insert_data"} /\ loads_alone =>
          loaded_as_alone
     /\ pc = "shell" /\ pc' = "finally" => exit_code' = 0]_vars

\* C4, amended: the same, for a later file whose relation the failed files
\* did not leave behind with other columns.
C4_FailureIsolated ==
  [][/\ file_fails => pc' = "next_file" /\ exit_code' = exit_code
     /\ after_failed_files /\ pc \in {"create_table", "insert_data"} /\ loads_alone
          /\ relation_fits => loaded_as_alone
     /\ pc = "shell" /\ pc' = "finally" => exit_code' = 0]_vars

\* The first file failed, the second file was loaded, the store holds the
\* rows of the second file only and the run has ended with exit status 0.
C4_Witness ==
  /\ pc = "exited" /\ exit_code = 0
  /\ Len(files) = 2 /\ status = <<"FAILED", "DONE">>
  /\ \E n \in TableNames :
       /\ store[n].exists
       /\ store[n].rows # <<>>
       /\ \A k \in 1..Len(store[n].rows) : store[n].rows[k].src = 2
       /\ \A m \in TableNames \ {n} : ~store[m].exists

(***************************************************************************)
(* Calls of one function on each argument of a bounded set                 *)
(***************************************************************************)

InitCall(inputs) ==
  /\ files = <<>>
  /\ table_arg = NoName
  /\ pc = "call"
  /\ idx = 0
  /\ conn = "none"
  /\ store = EmptyStore
  /\ txn = <<>>
  /\ cur = NoCur
  /\ ins = NoIns
  /\ status = <<>>
  /\ exit_code = 0 - 1
  /\ input \in inputs
  /\ output = NotCalled

Called(result) == [called |-> TRUE, result |-> result]

pipeline_vars == <<files, table_arg, pc, idx, conn, store, txn, cur, ins, status, exit_code>>

\* The raw strings _convert_value is called on: every string of at most
\* MaxStrLen characters of ConvertAlphabet, and longer spellings.
MaxStrLen == 3
ConvertAlphabet == {"1", "9", "e", "i", "n", "f", "a", "-", ".", " "}
\* 2^53 + 1, the first whole number that no double holds.
OddInt == <<"9", "0", "0", "7", "1", "9", "9", "2", "5", "4", "7", "4", "0", "9", "9", "3">>
ConvertSpecimens ==
  {<<"1", "e", "9", "9", "9">>, <<"-", "1", "e", "9", "9", "9">>, <<"1", "e", "-", "9", "9", "9">>,
   <<"i", "n", "f", "i", "n", "i", "t", "y">>, <<"-", "i", "n", "f">>, <<"+", "n", "a", "n">>,
   <<" ", "i", "n", "f", " ">>, <<"1", ".", "9", "e", "1">>, <<"1", "e", "1", "9">>, BigInt,
   <<"1", ".", "0">>, <<"-", "1", "9", ".", "0">>, OddInt, <<"-">> \o OddInt, OddInt \o <<".", "0">>,
   <<"1", "e", "2", "3">>}
ConvertInputs ==
  {[f |-> "_convert_value", value |-> v, target_type |-> t] :
     v \in SeqsUpTo(ConvertAlphabet, MaxStrLen) \cup ConvertSpecimens, t \in Types}

Convert ==
  /\ input.f = "_convert_value"
  /\ ~output.called
  /\ output' = Called(_convert_value(input.value, input.target_type))
  /\ UNCHANGED <<pipeline_vars, input>>

SpecConvert == InitCall(ConvertInputs) /\ [][Convert]_vars

\* C6: _convert_value returns a value for every raw string and every
\* declared type, and never raises.
C6_ConvertTotal ==
  (input.f = "_convert_value" /\ output.called) =>
    /\ output.result.raises = "none"
    /\ output.result.val.t \in {"null", "int", "real", "text"}

\* A value that cannot be coerced to the type: text that is no number, and
\* for INTEGER also a float that has no integer value.
uncoercible(value, type) ==
  /\ strip(value) # <<>>
  /\ \/ type = "REAL" /\ float(value).k = "err"
     \/ type = "INTEGER" /\ float(value).k # "fin"

cell(k, j) == IF j <= Len(cur.rows[k]) THEN cur.rows[k][j] ELSE <<>>

has_uncoercible ==
  \E k \in 1..Len(cur.rows) : \E j \in 1..Len(cur.schema) :
    uncoercible(cell(k, j), cur.schema[j].type)

\* The statement of the running call can be prepared and every value that
\* was coerced can be bound.
statement_succeeds ==
  /\ insert_prepares(store, target, col_names(cur.schema))
  /\ \A k \in 1..Len(cur.rows) : \A j \in 1..Len(cur.schema) :
       LET c == _convert_value(cell(k, j), cur.schema[j].type)
       IN  c.raises = "none" => binds(c.val)

\* C7: a call of insert_data over rows with an uncoercible cell in an INTEGER
\* or REAL column completes, commits as many rows as it was given, and the
\* cell holds the original string.
C7_UncoercibleCellKept ==
  [][call_ends /\ has_uncoercible /\ statement_succeeds =>
       /\ status'[idx] = "DONE"
       /\ Len(stored(store', idx)[target]) = Len(cur.rows)
       /\ \A k \in 1..Len(cur.rows) : \A j \in 1..Len(cur.schema) :
            uncoercible(cell(k, j), cur.schema[j].type) =>
              stored(store', idx)[target][k].vals[j] = TextValue(cell(k, j))]_vars

(***************************************************************************)
(* detect_and_load and the three parsers on small files                    *)
(***************************************************************************)

\* The files: at most MaxLines lines of DetectLines, under every extension.
MaxLines == 2
DetectLines ==
  {<<"a", ",", "b">>, <<"1", ",", "2">>, <<"{", "\"", "a", "\"", ":", "1", "}">>, <<"[", "]">>,
   <<>>, <<"x", " ", "y">>,
   <<"[", "{", "\"", "a", "\"", ":", "1", "}", ",">>, <<"2", "]">>}
Extensions == {".csv", ".json", ".txt", ".tsv", ".dat", ".xyz"}

DetectFiles ==
  {[ext |-> e, stem |-> <<"t">>, lines |-> l, exists |-> TRUE, sniff |-> a] :
     e \in Extensions, l \in SeqsUpTo(DetectLines, MaxLines), a \in SniffAnswers}

Parsers == {"CSV", "JSON", "TEXT"}

DetectInputs ==
  {[f |-> "detect_and_load", file |-> x] : x \in DetectFiles}
  \cup {[f |-> p, file |-> x] : p \in Parsers, x \in {y \in DetectFiles : y.ext = ".xyz"}}

Detect ==
  /\ input.f = "detect_and_load"
  /\ ~output.called
  /\ output' = Called(detect_and_load(input.file))
  /\ UNCHANGED <<pipeline_vars, input>>

\* One parser called on its own: load_csv, load_json or load_text.
Load ==
  /\ input.f \in Parsers
  /\ ~output.called
  /\ output' = Called(loader(input.f, input.file))
  /\ UNCHANGED <<pipeline_vars, input>>

NextDetect == Detect \/ Load

SpecDetect == InitCall(DetectInputs) /\ [][NextDetect]_vars

detected == input.f = "detect_and_load" /\ output.called

\* C8 as stated: whenever detect_and_load returns normally, the headers and the rows
\* it returns are both non-empty.
C8_ReturnsNonEmpty ==
  (detected /\ ~output.result.raises) =>
    output.result.headers # <<>> /\ output.result.rows # <<>>

\* C8, amended: a call that goes through the fallback loop, because the
\* extension selects no parser or its attempt raised, raises exactly when no
\* attempt of the loop yields headers and rows, and otherwise returns
\* non-empty headers and rows; the result of the extension's own parser is
\* returned as it is, empty or not.
C8_FallbackReturnsNonEmpty ==
  detected =>
    LET by_ext == extension_format(input.file.ext)
        own == loader(by_ext, input.file)
        out == output.result
    IN  IF by_ext # "none" /\ unpacks(own)
          THEN ~out.raises /\ out.headers = own.headers /\ out.rows = own.rows
          ELSE /\ out.raises <=>
                    \A p \in Parsers :
                      LET r == loader(p, input.file)
                      IN  ~unpacks(r) \/ r.headers = <<>> \/ r.rows = <<>>
               /\ ~out.raises => out.headers # <<>> /\ out.rows # <<>>

\* The extension selects no parser, the attempt of CSV yielded no rows and
\* the call returned the headers and rows of a later parser.
C8_Witness ==
  /\ detected
  /\ extension_format(input.file.ext) = "none"
  /\ unpacks(load_csv(input.file)) /\ load_csv(input.file).rows = <<>>
  /\ ~output.result.raises
  /\ output.result.detected_format # "CSV"
  /\ output.result.headers # <<>> /\ output.result.rows # <<>>

\* A parser's attempt on the file of the call yields a result the caller can
\* unpack, with headers and rows.
attempt(p) == loader(p, input.file)
qualifies(p) == unpacks(attempt(p)) /\ attempt(p).headers # <<>> /\ attempt(p).rows # <<>>

\* C9: detect_and_load returns the result of the extension's parser when that
\* attempt yields headers and rows; when it raises, or the extension selects
\* no parser, the call returns the result and the name of the first of CSV,
\* JSON, TEXT, in this order, whose attempt yields headers and rows, and
\* raises when none does.
C9_ExtensionThenFixedOrder ==
  detected =>
    LET by_ext == extension_format(input.file.ext)
        order == <<"CSV", "JSON", "TEXT">>
        out == output.result
    IN  /\ (by_ext # "none" /\ qualifies(by_ext)) => out = Detected(attempt(by_ext), by_ext)
        /\ (by_ext = "none" \/ ~unpacks(attempt(by_ext))) =>
             /\ out.raises <=> \A i \in 1..3 : ~qualifies(order[i])
             /\ \A i \in 1..3 :
                  (qualifies(order[i]) /\ \A j \in 1..(i - 1) : ~qualifies(order[j])) =>
                    out = Detected(attempt(order[i]), order[i])

\* The extension's parser raised on a file that both CSV and TEXT can parse,
\* and the call returned the result of CSV, the earlier of the two.
C9_Witness ==
  /\ detected
  /\ extension_format(input.file.ext) = "JSON" /\ attempt("JSON").raises
  /\ qualifies("CSV") /\ qualifies("TEXT")
  /\ attempt("CSV") # attempt("TEXT")
  /\ output.result = Detected(attempt("CSV"), "CSV")

\* C10: on an empty file each parser returns the four values headers, rows,
\* has_headers and all_rows, with empty headers and rows and has_headers
\* false, and raises nothing.
C10_EmptyFileYieldsEmptyResult ==
  (input.f \in Parsers /\ output.called /\ input.file.lines = <<>>) =>
    /\ ~output.result.raises
    /\ output.result.n = 4
    /\ output.result.headers = <<>>
    /\ output.result.rows = <<>>
    /\ ~output.result.has_headers

(***************************************************************************)
(* The header detection of load_csv and load_text                          *)
(***************************************************************************)

\* First lines that are all numbers, quoted numbers, padded numbers, names,
\* and later lines of either kind.
HeaderLines ==
  {<<"1", ",", "2">>, <<"\"", "1", "\"", ",", "\"", "2", "\"">>, <<" ", "1", ",", "2">>,
   <<"1", " ", "2">>, <<"a", ",", "b">>, <<"x", " ", "y">>, <<"1">>, <<"'", "1", "'", " ", "2">>}

HeaderInputs ==
  {[f |-> p, file |-> [ext |-> ".xyz", stem |-> <<"t">>, lines |-> l, exists |-> TRUE,
                       sniff |-> a]] :
     p \in {"CSV", "TEXT"}, l \in SeqsUpTo(HeaderLines, MaxLines), a \in SniffAnswers}

SpecHeader == InitCall(HeaderInputs) /\ [][Load]_vars

\* The parser of the call returned its four values and read at least a row.
loaded_rows ==
  /\ input.f \in {"CSV", "TEXT"}
  /\ output.called
  /\ unpacks(output.result)
  /\ output.result.all_rows # <<>>

all_numeric(fields) == \A i \in 1..Len(fields) : _looks_like_number(fields[i])

\* The names column_1 .. column_n the claim expects.
column_1_to(n) == [i \in 1..n |-> <<"c", "o", "l", "u", "m", "n", "_", DigitChar(i)>>]

\* The first row is taken as data under synthesized names.
first_row_is_data ==
  /\ ~output.result.has_headers
  /\ output.result.rows = output.result.all_rows
  /\ output.result.headers = column_1_to(Len(output.result.all_rows[1]))

\* C11 as stated: for delimited and whitespace-text input, whenever every field of
\* the first row parses as a number, the header flag is false, the first row
\* is the first data row and the headers are column_1 .. column_n, whatever
\* the later rows hold and whatever the header sniff reports.
C11_NumericFirstRowIsData ==
  (loaded_rows /\ all_numeric(output.result.all_rows[1])) => first_row_is_data

\* The pieces load_csv's fallback looks at: the stripped first line split on
\* the detected delimiter.
first_line_pieces ==
  split(strip(input.file.lines[1]), detect_csv_delimiter(input.file.lines))

\* C11, amended: the numeric first row is data for whitespace-text input, and
\* for delimited input when the header sniff raised and every piece of the
\* stripped first line split on the delimiter parses as a number; when the
\* sniff answers, the header flag of delimited input is its answer.
C11_NumericFirstRowIsDataUnlessSniffed ==
  /\ (loaded_rows /\ input.f = "TEXT" /\ all_numeric(output.result.all_rows[1])) =>
       first_row_is_data
  /\ (input.f = "CSV" /\ output.called /\ input.file.lines # <<>>
      /\ input.file.sniff = "error" /\ all_numeric(first_line_pieces)) =>
       loaded_rows /\ first_row_is_data
  /\ (loaded_rows /\ input.f = "CSV" /\ input.file.sniff # "error") =>
       output.result.has_headers = (input.file.sniff = "yes")

\* A delimited file whose sniff raised and whose two rows are numbers first
\* and names second came back as two data rows under column_1, column_2.
C11_Witness ==
  /\ loaded_rows /\ input.f = "CSV" /\ input.file.sniff = "error"
  /\ all_numeric(first_line_pieces)
  /\ Len(output.result.all_rows) = 2
  /\ ~all_numeric(output.result.all_rows[2])
  /\ first_row_is_data
  /\ Len(output.result.headers) = 2

(***************************************************************************)
(* detect_type on short columns                                            *)
(***************************************************************************)

\* The columns: at most MaxValues values of TypeValues.
MaxValues == 5
TypeValues ==
  {<<"1">>, <<" ", "-", "2", " ">>, <<"1", ".", "5">>, <<"x">>, <<>>, <<" ">>}

TypeInputs == {[f |-> "detect_type", values |-> v] : v \in SeqsUpTo(TypeValues, MaxValues)}

(***************************************************************************)
(* joinfiles: the left join of two files of whitespace-separated fields.   *)
(* A file is its lines, each the characters before its newline.            *)
(***************************************************************************)

detect_separator(line) == IF \E i \in 1..Len(line) : line[i] = "\t" THEN "\t" ELSE " "

\* line.strip().split(): the maximal runs of characters that are no whitespace.
split_fields(line) ==
  LET stop(i) ==
        CHOOSE j \in i..Len(line) :
          /\ \A m \in i..j : line[m] \notin Whitespace
          /\ j = Len(line) \/ line[j + 1] \in Whitespace
      fields(starts) ==
        [k \in 1..Cardinality(starts) |->
           SubSeq(line,
                  CHOOSE i \in starts : Cardinality({j \in starts : j < i}) = k - 1,
                  stop(CHOOSE i \in starts : Cardinality({j \in starts : j < i}) = k - 1))]
  IN  fields({i \in 1..Len(line) :
                line[i] \notin Whitespace /\ (i = 1 \/ line[i - 1] \in Whitespace)})

\* The field at a 1-based index; ok is FALSE for None.
get_field_value(fields, index) ==
  IF index < 1 \/ index > Len(fields)
    THEN [ok |-> FALSE, value |-> <<>>]
    ELSE [ok |-> TRUE, value |-> fields[index]]

\* The index of the second file: under each key the lines that hold it, in
\* the order of the file; the separator is detected on line 1 of the file,
\* when that line is not blank.
build_lookup_index(lines, key_index) ==
  [lookup |->
     [key \in {get_field_value(split_fields(lines[n]), key_index).value :
                 n \in {m \in 1..Len(lines) :
                          get_field_value(split_fields(lines[m]), key_index).ok}} |->
        SelectSeq(lines,
                  LAMBDA l : get_field_value(split_fields(l), key_index)
                               = [ok |-> TRUE, value |-> key])],
   separator |->
     IF lines # <<>> /\ strip(lines[1]) # <<>> THEN detect_separator(lines[1]) ELSE " "]

\* The separator of a joined line: a tab if either file uses one, else the
\* separator of the first file, else that of the second, else a space.
join_separator(file1_separator, file2_separator) ==
  IF file1_separator = "\t" \/ file2_separator = "\t" THEN "\t"
  ELSE IF file1_separator # " " THEN file1_separator
  ELSE IF file2_separator # " " THEN file2_separator
  ELSE " "

\* The lines written for the lines of the first file: a blank line gives
\* none, a line without the key field or without a match gives itself, a
\* line with matches gives one joined line for each.
RECURSIVE write_joins(_, _, _, _)
write_joins(lines1, file2_lookup, index1, separator) ==
  LET matched(line, matching_lines) ==
        IF matching_lines = <<>> THEN <<line>>
        ELSE [k \in 1..Len(matching_lines) |-> line \o <<separator>> \o matching_lines[k]]
      keyed(line, key) ==
        matched(line, IF key.ok /\ key.value \in DOMAIN file2_lookup
                        THEN file2_lookup[key.value] ELSE <<>>)
      written(line) ==
        IF strip(line) = <<>> THEN <<>>
        ELSE keyed(line, get_field_value(split_fields(line), index1))
  IN  IF lines1 = <<>> THEN <<>>
      ELSE written(Head(lines1)) \o write_joins(Tail(lines1), file2_lookup, index1, separator)

\* The separator of the first file: detected on its first line that is not
\* blank.
file1_separator(lines1) ==
  IF \A n \in 1..Len(lines1) : strip(lines1[n]) = <<>> THEN " "
  ELSE detect_separator(
         lines1[CHOOSE n \in 1..Len(lines1) :
                  strip(lines1[n]) # <<>> /\ \A m \in 1..(n - 1) : strip(lines1[m]) = <<>>])

\* join_files: the lines of the output file.
join_files(lines1, lines2, index1, index2) ==
  LET joined(index) ==
        write_joins(lines1, index.lookup, index1,
                    join_separator(file1_separator(lines1), index.separator))
  IN  joined(build_lookup_index(lines2, index2))

\* The function the input names, applied to the arguments of the input.
applied(in) ==
  CASE in.f = "detect_type" -> detect_type(in.values)
    [] in.f = "detect_csv_delimiter" -> detect_csv_delimiter(in.lines)
    [] in.f = "join_files" -> join_files(in.lines1, in.lines2, in.index1, in.index2)

\* One call of the function of the input.
Call ==
  /\ input.f \in {"detect_type", "detect_csv_delimiter", "join_files"}
  /\ ~output.called
  /\ output' = Called(applied(input))
  /\ UNCHANGED <<pipeline_vars, input>>

SpecType == InitCall(TypeInputs) /\ [][Call]_vars

\* The counts of the reference: over the entries that are not blank, those
\* an integer literal, those a real but no integer literal, and all of them.
kept_entries == {k \in 1..Len(input.values) : strip(input.values[k]) # <<>>}
integer_entries == {k \in kept_entries : int(input.values[k]).ok}
real_entries ==
  {k \in kept_entries : ~int(input.values[k]).ok /\ float(input.values[k]).k # "err"}

reference_type ==
  IF kept_entries = {} THEN "TEXT"
  ELSE IF 5 * (Cardinality(integer_entries) + Cardinality(real_entries))
            >= 4 * Cardinality(kept_entries)
    THEN IF real_entries = {} THEN "INTEGER" ELSE "REAL"
  ELSE "TEXT"

\* C12: detect_type returns what the reference returns: TEXT when no entry
\* is left after dropping the blank ones; INTEGER or REAL when at least four
\* fifths of the entries left are numbers, INTEGER when none of them is a
\* real; TEXT otherwise.
C12_DetectTypeIsReference ==
  (input.f = "detect_type" /\ output.called) => output.result = reference_type

\* Five entries are left, four integers and one text, exactly 80% numeric
\* with no real, and the column came out INTEGER.
C12_Witness ==
  /\ input.f = "detect_type" /\ output.called
  /\ Cardinality(kept_entries) = 5
  /\ Cardinality(integer_entries) = 4
  /\ real_entries = {}
  /\ output.result = "INTEGER"

(***************************************************************************)
(* detect_csv_delimiter on files of a few lines                            *)
(***************************************************************************)

\* The files: at most MaxDelimiterLines lines of DelimiterLines, one line
\* more than the sample the function reads.
MaxDelimiterLines == 6
DelimiterLines ==
  {<<"p", ";", "q">>, <<>>, <<"r">>, <<"a", ",", "b", ";", "c", ";", "d">>}

DelimiterInputs ==
  {[f |-> "detect_csv_delimiter", lines |-> l] :
     l \in SeqsUpTo(DelimiterLines, MaxDelimiterLines)}

SpecDelimiter == InitCall(DelimiterInputs) /\ [][Call]_vars

delimiter_called == input.f = "detect_csv_delimiter" /\ output.called

Candidates == {",", ";", "|", "\t"}

\* The number of fields of a line under candidate d.
count_fields(line, d) == Cardinality({i \in 1..Len(line) : line[i] = d}) + 1

\* The score of the claim for candidate d over the lines of a sample,
\* times the number n of its lines: with avg = S/n at least 2,
\* (1 - (max - min)/avg) * avg * n = S - n * (max - min); otherwise 0.
claimed_score(sample, d) ==
  LET n == Len(sample)
      counts == {count_fields(sample[i], d) : i \in 1..n}
      S == SumSeq([i \in 1..n |-> count_fields(sample[i], d)])
      hi == CHOOSE x \in counts : \A y \in counts : y <= x
      lo == CHOOSE x \in counts : \A y \in counts : y >= x
  IN  IF n > 0 /\ S >= 2 * n THEN S - n * (hi - lo) ELSE 0

\* The answer is the comma when no candidate scores above zero over the
\* sample, and otherwise a candidate no other one outscores.
highest_over(sample) ==
  /\ output.result \in Candidates
  /\ \A d \in Candidates : claimed_score(sample, output.result) >= claimed_score(sample, d)
  /\ (\A d \in Candidates : claimed_score(sample, d) <= 0) => output.result = ","

non_empty_lines(lines) ==
  SelectSeq([i \in 1..Len(lines) |-> strip(lines[i])], LAMBDA l : l # <<>>)

first_five(lines) == SubSeq(lines, 1, Min(5, Len(lines)))

MaxJsonLines == 3
JsonLines ==
  {<<"{", "\"", "a", "\"", ":", "1", "}">>,
   <<"{", "\"", "b", "\"", ":", "2", ",", "\"", "a", "\"", ":", "\"", "x", "\"", "}">>,
   <<"{", "\"", "b", "\"", ":", "[", "1", ".", "5", "]", "}">>,
   <<"x">>, <<"[", "1", "]">>, <<>>,
   <<"[", "{", "\"", "a", "\"", ":", "1", ",", "\"", "b", "\"", ":", "2", "}", ",">>,
   <<"{", "\"", "b", "\"", ":", "4", "}", "]">>}

JsonInputs ==
  {[f |-> "JSON", file |-> [ext |-> ".json", stem |-> <<"t">>, lines |-> l, exists |-> TRUE,
                            sniff |-> "no"]] :
     l \in SeqsUpTo(JsonLines, MaxJsonLines)}

SpecJson == InitCall(JsonInputs) /\ [][Load]_vars

json_called == input.f = "JSON" /\ output.called

\* The whole content of the file as one document.
whole_document == json_loads(strip(join_lines(input.file.lines)))

\* The objects of the lines that are valid JSON objects, in file order.
line_value(i) == json_loads(strip(input.file.lines[i]))
accepted_lines ==
  SelectSeq([i \in 1..Len(input.file.lines) |-> i],
            LAMBDA i : line_value(i).ok /\ line_value(i).val.t = "obj")
accepted_object(k) == line_value(accepted_lines[k]).val
keys_of(o) == {o.keys[j] : j \in 1..Len(o.keys)}

\* C14: on content that is not one valid JSON document load_json does not
\* fail; the lines that are no JSON objects are skipped; the headers are the
\* sorted union of the keys of the accepted objects; there is one row per
\* accepted object, in file order, with the empty string at every header
\* its object lacks.
C14_NewlineDelimitedFallback ==
  (json_called /\ ~whole_document.ok) =>
    LET out == output.result
    IN  /\ unpacks(out)
        /\ {out.headers[j] : j \in 1..Len(out.headers)}
             = UNION {keys_of(accepted_object(k)) : k \in 1..Len(accepted_lines)}
        /\ \A j \in 1..(Len(out.headers) - 1) : str_less(out.headers[j], out.headers[j + 1])
        /\ Len(out.rows) = Len(accepted_lines)
        /\ \A k \in 1..Len(out.rows) :
             /\ Len(out.rows[k]) = Len(out.headers)
             /\ \A j \in 1..Len(out.headers) :
                  IF out.headers[j] \in keys_of(accepted_object(k))
                    THEN out.rows[k][j] = obj_get_str(accepted_object(k), out.headers[j])
                    ELSE out.rows[k][j] = <<>>

\* Three lines, an object with key a, a text that is no JSON and an object
\* with key b, came back as the rows <<"1", "">> and <<"", "[1.5]">> under a, b.
C14_Witness ==
  /\ json_called /\ ~whole_document.ok
  /\ Len(input.file.lines) = 3 /\ accepted_lines = <<1, 3>>
  /\ output.result.headers = <<<<"a">>, <<"b">>>>
  /\ output.result.rows = <<<<<<"1">>, <<>>>>, <<<<>>, <<"[", "1", ".", "5", "]">>>>>>

\* The content is one JSON array whose items are all objects, at least one.
array_of_objects ==
  /\ whole_document.ok /\ whole_document.val.t = "arr"
  /\ whole_document.val.items # <<>>
  /\ \A k \in 1..Len(whole_document.val.items) : whole_document.val.items[k].t = "obj"

\* The values of the objects are strings and numbers.
flat(o) == \A j \in 1..Len(o.vals) : o.vals[j].t \in {"str", "num"}

\* C15: on a JSON array of flat objects load_json returns the keys of the
\* first object, in their order, as headers; one row per item, in array
\* order, with the string form of the item's value at each header and the
\* empty string where the item lacks the key; has_headers true; and
\* all_rows equal to the rows.
C15_ArrayOfObjects ==
  (json_called /\ array_of_objects
   /\ \A k \in 1..Len(whole_document.val.items) : flat(whole_document.val.items[k])) =>
    LET out == output.result
        items == whole_document.val.items
    IN  /\ unpacks(out)
        /\ out.headers = items[1].keys
        /\ Len(out.rows) = Len(items)
        /\ \A k \in 1..Len(items) :
             /\ Len(out.rows[k]) = Len(out.headers)
             /\ \A j \in 1..Len(out.headers) :
                  IF out.headers[j] \in keys_of(items[k])
                    THEN out.rows[k][j] = obj_get_str(items[k], out.headers[j])
                    ELSE out.rows[k][j] = <<>>
        /\ out.has_headers
        /\ out.all_rows = out.rows

\* The array [{"a":1,"b":2}, {"b":4}] over two lines came back as the rows
\* <<"1", "2">> and <<"", "4">> under a, b.
C15_Witness ==
  /\ json_called /\ array_of_objects
  /\ Len(input.file.lines) = 2
  /\ output.result.headers = <<<<"a">>, <<"b">>>>
  /\ output.result.rows = <<<<<<"1">>, <<"2">>>>, <<<<>>, <<"4">>>>>>
  /\ output.result.has_headers
  /\ output.result.all_rows = output.result.rows

(***************************************************************************)
(* create_table and insert_data in the run                                 *)
(***************************************************************************)

\* The step of the run is the call of create_table for the current file.
create_table_called == pc = "create_table" /\ pc' \in {"insert_data", after_file_error}

\* C16: create_table on a name whose relation exists leaves the store as it
\* is, the relation's columns and rows with it, whatever the schema of the
\* call; with the connection open and the same schema it raises nothing.
C16_CreateKeepsExisting ==
  [][(create_table_called /\ store[target].exists) =>
       /\ store' = store
       /\ (conn = "open" /\ store[target].cols = column_defs(cur.schema)) =>
            pc' = "insert_data"]_vars

\* The second file of the run has the name and the schema of the first:
\* create_table returned, and the relation holds the rows of the first file.
C16_Witness ==
  /\ pc = "insert_data" /\ ins = NoIns /\ idx = 2
  /\ status = <<"DONE", "RELATION_ENSURED">>
  /\ store[target].cols = column_defs(cur.schema)
  /\ stored(store, 1)[target] # <<>>
  /\ stored(store, 1)[target] = store[target].rows

\* The running call of insert_data raises in this step.
insert_data_raises == pc = "insert_data" /\ status'[idx] = "FAILED"

\* C17: when insert_data raises for a file, the relation create_table
\* ensured for the file is in the store, with the columns it had and with
\* no row of the call: the rollback leaves the store as it was; and no step
\* of the run removes a relation or changes its columns.
C17_RelationSurvivesFailedInsert ==
  [][/\ insert_data_raises =>
          /\ store[target].exists
          /\ store' = store
          /\ stored(store', idx) = none_of_call
     /\ \A n \in TableNames :
          store[n].exists => store'[n].exists /\ store'[n].cols = store[n].cols]_vars

\* The first file of a run over an empty store failed in insert_data after a
\* batch had executed, and the relation created for it is there with its
\* column and without rows.
C17_Witness ==
  /\ pc = "next_file" /\ idx = 1 /\ status[1] = "FAILED" /\ ins.i > 0
  /\ \E n \in TableNames :
       /\ store[n].exists /\ Len(store[n].cols) = 1 /\ store[n].rows = <<>>
       /\ \A m \in TableNames \ {n} : ~store[m].exists

(***************************************************************************)
(* Runs over one file whose rows are shorter and longer than its header    *)
(***************************************************************************)

\* The files: the header a b and at most MaxRaggedRows rows of RaggedRows,
\* of one, two and three fields.
MaxRaggedRows == 3
RaggedRows ==
  {<<"1">>, <<"1", " ", "2">>, <<"1", " ", "2", " ", "3">>, <<"x", " ", "2">>,
   <<"i", "n", "f">>}

RaggedFile(data) ==
  [ext |-> ".txt", stem |-> <<"t">>, lines |-> <<<<"a", " ", "b">>>> \o data, exists |-> TRUE,
   sniff |-> "yes"]

RaggedFiles == {RaggedFile(data) : data \in SeqsUpTo(RaggedRows, MaxRaggedRows) \ {<<>>}}

InitRagged == InitRun(FileLists(RaggedFiles, 1), {NoName}, {EmptyStore})

SpecRagged == InitRagged /\ [][Next]_vars

\* The tuple the claim expects for a row: as wide as the schema, the
\* coerced field where the row has one, null where it has none.
expected_tuple(row) ==
  [j \in 1..Len(cur.schema) |->
     IF j <= Len(row) THEN _convert_value(row[j], cur.schema[j].type).val ELSE Null]

\* C18: the tuples a pass of insert_data hands to the store are those of the
\* rows of its batch, in their order, each as wide as the schema, with null
\* in the columns a short row lacks, without the fields a long row has
\* beyond the schema, and with _convert_value of field j under the type of
\* column j at position j; a call that returns has stored the tuples of all
\* its rows, in their order.
C18_TuplesOfSchemaWidth ==
  [][/\ (pc = "insert_data" /\ Len(txn') > Len(txn)) =>
          /\ Len(txn') - Len(txn) = Min(batch_size, Len(cur.rows) - ins.i)
          /\ \A k \in 1..(Len(txn') - Len(txn)) :
               txn'[Len(txn) + k].vals = expected_tuple(cur.rows[ins.i + k])
     /\ (pc = "insert_data" /\ status'[idx] = "DONE") =>
          /\ Len(stored(store', idx)[target]) = Len(cur.rows)
          /\ \A k \in 1..Len(cur.rows) :
               stored(store', idx)[target][k].vals = expected_tuple(cur.rows[k])]_vars

\* A file of a one-field row, a two-field row and a three-field row under
\* two INTEGER columns was loaded as <<1, null>>, <<1, 2>>, <<1, 2>>.
C18_Witness ==
  /\ pc = "next_file" /\ idx = 1 /\ status[1] = "DONE"
  /\ files[1].lines = <<<<"a", " ", "b">>, <<"1">>, <<"1", " ", "2">>,
                        <<"1", " ", "2", " ", "3">>>>
  /\ \E n \in TableNames :
       /\ Len(store[n].rows) = 3
       /\ store[n].rows[1].vals = <<IntegerValue(FALSE, <<1>>), Null>>
       /\ store[n].rows[2].vals = <<IntegerValue(FALSE, <<1>>), IntegerValue(FALSE, <<2>>)>>
       /\ store[n].rows[3].vals = store[n].rows[2].vals

(***************************************************************************)
(* _convert_value on a string that is no number                            *)
(***************************************************************************)

\* A call of _convert_value under INTEGER or REAL on a string that is not
\* blank and that float() rejects has returned.
unparsable_converted ==
  /\ input.f = "_convert_value" /\ output.called
  /\ input.target_type \in {"INTEGER", "REAL"}
  /\ strip(input.value) # <<>>
  /\ float(input.value).k = "err"

\* C19 as stated: _convert_value under INTEGER or REAL, on a non-blank
\* string that does not parse as a floating-point number, returns the string
\* as it was passed in, leading and trailing whitespace included.
C19_UnparsableReturnedVerbatim ==
  unparsable_converted => output.result = Returned(TextValue(input.value))

\* C19: _convert_value under INTEGER or REAL, on a non-blank string that
\* does not parse as a floating-point number, returns the string without
\* its leading and trailing whitespace, and otherwise character for
\* character.
C19_UnparsableReturnedStripped ==
  unparsable_converted =>
    /\ output.result.raises = "none"
    /\ output.result.val.t = "text"
    /\ \E a, b \in 0..Len(input.value) :
         /\ \A i \in 1..a : input.value[i] = " "
         /\ \A i \in (Len(input.value) - b + 1)..Len(input.value) : input.value[i] = " "
         /\ a + b < Len(input.value)
         /\ input.value[a + 1] # " " /\ input.value[Len(input.value) - b] # " "
         /\ output.result.val.s = SubSeq(input.value, a + 1, Len(input.value) - b)

\* " a " under INTEGER came back as "a".
C19_Witness ==
  /\ unparsable_converted
  /\ input.value = <<" ", "a", " ">> /\ input.target_type = "INTEGER"
  /\ output.result = Returned(TextValue(<<"a">>))

(***************************************************************************)
(* _convert_value on integer literals                                      *)
(***************************************************************************)

\* The literal without a trailing .0.
without_point_zero(s) ==
  IF Len(s) > 2 /\ SubSeq(s, Len(s) - 1, Len(s)) = <<".", "0">>
    THEN SubSeq(s, 1, Len(s) - 2)
    ELSE s

\* A call of _convert_value under INTEGER on an integer literal, with or
\* without a trailing .0, has ended.
integer_literal_converted ==
  /\ input.f = "_convert_value" /\ output.called
  /\ input.target_type = "INTEGER"
  /\ int(without_point_zero(strip(input.value))).ok

\* C20: _convert_value(s, INTEGER) of an integer literal s of any magnitude,
\* with or without a trailing .0, is the integer that s denotes.
C20_IntegerRoundTrip ==
  integer_literal_converted =>
    output.result =
      Returned(IntegerValue(int(without_point_zero(strip(input.value))).neg,
                            int(without_point_zero(strip(input.value))).digs))

\* The same for the literals below 2^53, which the conversion does return
\* as they are: 19, -19.0 and every shorter one.
SmallIntegerRoundTrip ==
  (integer_literal_converted /\ Len(strip(input.value)) <= 5) => C20_IntegerRoundTrip

(***************************************************************************)
(* The order of the steps of a file's pipeline                             *)
(***************************************************************************)

\* The states in which a file's pipeline is over and the loop goes on: the
\* load is done, it failed, or the file was skipped (it is missing or holds
\* no data).  In CANCELLED and INTERRUPTED it is over because the run is.
Ended == {"DONE", "FAILED", "NOT_FOUND", "NO_DATA"}

\* The states a pipeline may move to from a state.
Successors(st) ==
  CASE st = "PENDING" -> {"DETECTING", "NOT_FOUND"}
    [] st = "DETECTING" -> {"SCHEMA_PROPOSED", "FAILED", "NO_DATA", "INTERRUPTED"}
    [] st = "SCHEMA_PROPOSED" -> {"RECONCILED", "CANCELLED", "INTERRUPTED"}
    [] st = "RECONCILED" -> {"RELATION_ENSURED", "FAILED", "INTERRUPTED"}
    [] st = "RELATION_ENSURED" -> {"LOADING", "FAILED", "INTERRUPTED"}
    [] st = "LOADING" -> {"LOADING", "DONE", "FAILED", "INTERRUPTED"}
    [] OTHER -> {}

\* Every change of a file's state is a move to a successor, and only the
\* state of the current file changes.
moves_in_order ==
  \A i \in 1..Len(files) :
    status'[i] # status[i] => (status'[i] \in Successors(status[i]) /\ i = idx')

\* create_table runs only for a reconciled file, insert_data only after
\* create_table has succeeded.
loader_after_reconciliation ==
  /\ pc = "create_table" => status[idx] = "RECONCILED"
  /\ pc = "insert_data" => status[idx] \in {"RELATION_ENSURED", "LOADING"}

\* No file has begun before every file in front of it is over, and a run
\* that has ended in a file begins no other.
one_file_at_a_time ==
  \A i \in 1..Len(files) :
    status[i] # "PENDING" =>
      /\ i <= idx
      /\ \A j \in 1..(i - 1) : status[j] \in Ended

\* C21 as stated: the states of a file's pipeline follow one another in the
\* order DETECTING, SCHEMA_PROPOSED, RECONCILED, RELATION_ENSURED, LOADING,
\* DONE, or the pipeline ends; the schema proposal is computed before any
\* answer of the user is requested; create_table runs only after the
\* reconciliation, insert_data only after create_table; and no file begins
\* before the file in front of it is over.
C21_PipelineInOrder ==
  [][/\ moves_in_order
     /\ at_prompt => (status[idx] \in {"SCHEMA_PROPOSED", "RECONCILED"} /\ cur.schema # <<>>)
     /\ loader_after_reconciliation
     /\ one_file_at_a_time]_vars

\* C21: the same, with the proposal computed before the answers about the
\* schema and the name of the relation are requested; the answer about the
\* headers is requested before it, on what detect_and_load returned.
C21_PipelineInOrderAfterHeaders ==
  [][/\ moves_in_order
     /\ pc \in {"confirm_schema", "get_table_name"} =>
          (status[idx] \in {"SCHEMA_PROPOSED", "RECONCILED"} /\ cur.schema # <<>>)
     /\ (pc = "confirm_headers" /\ at_prompt) =>
          (status[idx] = "DETECTING" /\ cur.schema = <<>> /\ cur.headers # <<>>)
     /\ loader_after_reconciliation
     /\ one_file_at_a_time]_vars

\* The second file is being loaded after the first was: its headers were
\* asked about, its schema proposed and accepted, its relation created.
C21_Witness ==
  /\ Len(files) = 2 /\ idx = 2
  /\ status[1] = "DONE" /\ status[2] = "LOADING"
  /\ pc = "insert_data"
  /\ cur.has_headers /\ Len(cur.all_rows) > 1

(***************************************************************************)
(* joinfiles: the separator of the joined lines                            *)
(***************************************************************************)

\* The files joined: at most MaxJoinLines lines of JoinLines each, with
\* fields separated by a space or by a tab, and blank lines; the key
\* indexes within MaxKeyIndex.
MaxJoinLines == 2
MaxKeyIndex == 2
JoinLines ==
  {<<"k", " ", "a">>, <<"k", "\t", "b">>, <<"j", " ", "k">>, <<"k">>, <<>>, <<" ">>}

JoinInputs ==
  {[f |-> "join_files", lines1 |-> l1, lines2 |-> l2, index1 |-> i1, index2 |-> i2] :
     l1 \in SeqsUpTo(JoinLines, MaxJoinLines), l2 \in SeqsUpTo(JoinLines, MaxJoinLines),
     i1 \in 1..MaxKeyIndex, i2 \in 1..MaxKeyIndex}

SpecJoin == InitCall(JoinInputs) /\ [][Call]_vars

join_called == input.f = "join_files" /\ output.called

\* C22: the output of join_files is the output in which every joined line is
\* the line of the first file, the separator detected for the first file
\* and the matching line of the second file, whatever separator the second
\* file uses.
C22_JoinedWithFirstSeparator ==
  join_called =>
    output.result =
      write_joins(input.lines1, build_lookup_index(input.lines2, input.index2).lookup,
                  input.index1, file1_separator(input.lines1))

\* Where the first file uses tabs, or neither file does, the joined lines
\* do carry the separator of the first file.
JoinedWithFirstSeparatorUnlessTab ==
  (join_called /\ (file1_separator(input.lines1) = "\t"
                   \/ build_lookup_index(input.lines2, input.index2).separator = " ")) =>
    C22_JoinedWithFirstSeparator

(***************************************************************************)
(* The open transaction of the shared connection between the files         *)
(***************************************************************************)

\* The rows of file i that a reader of the store sees.
visible_rows(i) ==
  UNION {{<<n, k>> : k \in {j \in 1..Len(store[n].rows) : store[n].rows[j].src = i}} :
           n \in TableNames}

\* C23: from the start of a file's pipeline up to the commit of create_table
\* the connection holds no uncommitted row; while insert_data runs it holds
\* rows of this call only, so that its commit publishes no other; and the
\* store shows rows only of files whose load is done, whatever files ran
\* before and however they ended.
C23_NoRowsOfEarlierCall ==
  /\ pc \in {"next_file", "DETECTING", "confirm_headers", "confirm_schema",
             "get_table_name", "create_table"} => txn = <<>>
  /\ pc = "insert_data" => \A k \in 1..Len(txn) : txn[k].src = idx
  /\ \A i \in 1..Len(files) : visible_rows(i) # {} => status[i] = "DONE"

\* After a first file whose load failed in its second batch, with its first
\* batch in the open transaction, the second file was loaded: the store
\* shows the rows of the second file and none of the first.
C23_Witness ==
  /\ Len(files) = 2 /\ status = <<"FAILED", "DONE">>
  /\ files[1].lines = BigFile.lines
  /\ pc = "next_file"
  /\ visible_rows(1) = {} /\ visible_rows(2) # {}

(***************************************************************************)
(* The statements of the query shell and the store                         *)
(***************************************************************************)

\* The rows in the store that a statement of the shell wrote.
shell_rows_stored ==
  UNION {{<<n, k>> : k \in {m \in 1..Len(store[n].rows) : store[n].rows[m] = ShellRow(n)}} :
           n \in TableNames}

MaxTieLines == 3
TieLines ==
  {<<"a", ";", "b", "|", "c">>, <<"a", "|", "b", "\t", "c">>, <<"a", ",", "b", ";", "c">>,
   <<"x", ";", "y", "|", "z", ",", "1", ",", "2", ",", "3", ",", "4">>, <<"x">>}

TieInputs ==
  {[f |-> "detect_csv_delimiter", lines |-> l] : l \in SeqsUpTo(TieLines, MaxTieLines)}

SpecTie == InitCall(TieInputs) /\ [][Call]_vars

CandidateOrder == <<",", ";", "|", "\t">>

\* The score of the candidate at position i of the order, over the lines
\* sampled from the input.
order_score(i) ==
  claimed_score(non_empty_lines(first_five(input.lines)), CandidateOrder[i])

\* The highest score is positive, and the answer is the first candidate of
\* the order that has it.
first_of_highest ==
  \E i \in 1..Len(CandidateOrder) :
    /\ output.result = CandidateOrder[i]
    /\ order_score(i) > 0
    /\ \A j \in 1..Len(CandidateOrder) : order_score(j) <= order_score(i)
    /\ \A j \in 1..(i - 1) : order_score(j) < order_score(i)

some_positive == \E i \in 1..Len(CandidateOrder) : order_score(i) > 0

\* The answer is the same for inputs with the same sampled lines.
function_of_sample ==
  output.result = detect_csv_delimiter(non_empty_lines(first_five(input.lines)))

\* C25 as stated: among the candidates of the highest positive score the
\* first in the order comma, semicolon, pipe, tab is the answer; the answer
\* is a function of the sampled lines; and the answer is never a candidate
\* whose score is negative.
C25_FirstOfHighestNeverNegative ==
  delimiter_called =>
    /\ some_positive => first_of_highest
    /\ function_of_sample
    /\ \A i \in 1..Len(CandidateOrder) :
         output.result = CandidateOrder[i] => order_score(i) >= 0

\* C25: among the candidates of the highest positive score the first in the
\* order comma, semicolon, pipe, tab is the answer; the answer is a function
\* of the sampled lines; and a candidate whose score is negative is the
\* answer only as the comma that is returned when no score is positive.
C25_FirstOfHighestOrComma ==
  delimiter_called =>
    /\ some_positive => first_of_highest
    /\ ~some_positive => output.result = ","
    /\ function_of_sample
    /\ \A i \in 1..Len(CandidateOrder) :
         (output.result = CandidateOrder[i] /\ order_score(i) < 0) =>
           (i = 1 /\ ~some_positive)

\* The semicolon and the pipe split every sampled line in two and the comma
\* scores below zero: the answer is the semicolon.
C25_Witness ==
  /\ delimiter_called
  /\ order_score(2) = order_score(3) /\ order_score(2) > 0
  /\ order_score(1) < 0
  /\ output.result = ";"

====
